---------------------------- MODULE Spec2Model ----------------------------
(***************************************************************************)
(* Model of the layered generation pipeline of                             *)
(* caput-ultimate-edition/orchestration/generation/generation_master.py.   *)
(*                                                                         *)
(* Number representations                                                  *)
(*   - a 64-bit unsigned integer is the set of its one-bits (a subset of   *)
(*     0..63): xor is symmetric difference, a shift moves the positions    *)
(*     and the mask & 0xFFFFFFFFFFFFFFFF drops positions above 63;         *)
(*   - the value returned by next_float() is kept as its numerator over    *)
(*     0xFFFFFFFF, as two 16-bit limbs <<high, low>>;                      *)
(*   - a number the code rounds to 4 decimals is an integer count of       *)
(*     ten-thousandths (Unit);                                             *)
(*   - a density is a count of sixteenths (the code only reads density     *)
(*     through int(density * 16) and through comparisons with a draw).     *)
(***************************************************************************)
EXTENDS Integers, Naturals, Sequences, FiniteSets, TLC

VARIABLES
    seed,       \* generator harness: the seed the generator was built from
    rng,        \* generator harness: SeededRNG.state
    calls,      \* harnesses: number of calls made so far
    ret,        \* harnesses: what the last call returned
    pc,         \* per run: the statement of run_pipeline it is at
    args,       \* per run: the arguments run_pipeline was called with
    local,      \* per run: run_pipeline's locals config, points, skeleton,
                \* mesh, assets and scene, and rng5, the state of layer 5's
                \* generator when that layer returns
    result,     \* per run: what run_pipeline returned
    log,        \* per run: the calls made so far, with what each received
    cache_dir   \* chunk_manager: whether CACHE_DIR exists, and its files

rngVars == <<seed, rng, calls, ret>>
runVars == <<pc, args, local, result, log>>
vars == <<seed, rng, calls, ret, pc, args, local, result, log, cache_dir>>

(***************************************************************************)
(* Bounds of the model                                                     *)
(***************************************************************************)
MaxCalls == 12

(***************************************************************************)
(* 64-bit words as bit sets                                                *)
(***************************************************************************)
WordBits == 64
Bit == 0..(WordBits - 1)

RECURSIVE Pow2(_)
Pow2(n) == IF n = 0 THEN 1 ELSE 2 * Pow2(n - 1)

\* The word whose four 16-bit limbs are h3 (highest) .. h0 (lowest).
U64(h3, h2, h1, h0) ==
    {b \in Bit :
        LET limb == CASE b \div 16 = 3 -> h3
                      [] b \div 16 = 2 -> h2
                      [] b \div 16 = 1 -> h1
                      [] OTHER -> h0
        IN (limb \div Pow2(b % 16)) % 2 = 1}

\* The number held by the n bits of w from position lo upwards (n <= 16).
RECURSIVE BitsValue(_, _, _)
BitsValue(w, lo, n) ==
    IF n = 0 THEN 0
    ELSE 2 * BitsValue(w, lo + 1, n - 1) + (IF lo \in w THEN 1 ELSE 0)

Xor(a, b) == (a \ b) \cup (b \ a)
Shl(w, k) == {b + k : b \in w}
Shr(w, k) == {b - k : b \in {c \in w : c >= k}}

\* x & 0xFFFFFFFFFFFFFFFF
Mask64(w) == w \cap Bit

\* x & 0xFFFFFFFF, as the limbs <<bits 31..16, bits 15..0>>
Low32(w) == <<BitsValue(w, 16, 16), BitsValue(w, 0, 16)>>

\* The divisor 0xFFFFFFFF of next_float(), as limbs.
FloatDivisor == <<65535, 65535>>

LimbLess(a, b) == a[1] < b[1] \/ (a[1] = b[1] /\ a[2] < b[2])

(***************************************************************************)
(* Arithmetic on draws.  A draw is the float l / 0xFFFFFFFF, l a limb pair. *)
(* Products of a draw with a width are taken exactly, 16 bits at a time,   *)
(* so that no intermediate value leaves the range of a machine integer.    *)
(***************************************************************************)
Limb == Pow2(16)

\* One ten-thousandth: the resolution of round(v, 4).
Unit == 10000

\* The quotient a0 and the remainder r0 = <<high, low>>, high possibly above
\* a limb and r0 possibly 0xFFFFFFFF itself, brought to 0 <= r < 0xFFFFFFFF.
Reduced(a0, r0) ==
    IF r0[1] >= Limb \/ r0 = FloatDivisor
    THEN [q |-> a0 + 1,
          r |-> IF r0 = FloatDivisor THEN <<0, 0>>
                ELSE IF r0[2] + 1 = Limb THEN <<r0[1] - Limb + 1, 0>>
                ELSE <<r0[1] - Limb, r0[2] + 1>>]
    ELSE [q |-> a0, r |-> r0]

\* l * w = a0 * 2^32 + d1 * 2^16 + d0 = a0 * 0xFFFFFFFF + (a0 + d1 * 2^16 + d0)
FoldLow(a0, d1, rl) ==
    Reduced(a0, <<(d1 % Limb) + (a0 \div Limb) + (rl \div Limb), rl % Limb>>)

FoldHigh(d0, d1, a0) == FoldLow(a0, d1, (d0 % Limb) + (a0 % Limb))

SumHigh(t1, t2, t3, d0, d1) ==
    FoldHigh(d0, d1, ((t1 \div 64) \div Limb) + (t2 \div Limb) + (t3 \div 64)
                     + (d1 \div Limb))

SumMiddle(t0, t1, t2, t3, d0) ==
    SumHigh(t1, t2, t3, d0,
            (t0 \div Limb) + ((t1 \div 64) % Limb) + (t2 % Limb)
            + (t3 % 64) * 1024 + (d0 \div Limb))

\* The partial products t0..t3 of the limbs of l with the two halves of w.
SumLow(t0, t1, t2, t3) ==
    SumMiddle(t0, t1, t2, t3, (t0 % Limb) + (t1 % 64) * 1024)

\* l * w = q * 0xFFFFFFFF + r with 0 <= r < 0xFFFFFFFF, for 0 <= w < 2^20;
\* r is a limb pair.
MulDivD(l, w) ==
    SumLow(l[2] * (w % 1024), l[2] * (w \div 1024),
           l[1] * (w % 1024), l[1] * (w \div 1024))

\* r / 0xFFFFFFFF >= 1/2, for r < 0xFFFFFFFF
AtLeastHalf(r) == r[1] >= Limb \div 2

RoundQuotient(m) == m.q + (IF AtLeastHalf(m.r) THEN 1 ELSE 0)

\* round(f * w) for the draw f = l / 0xFFFFFFFF and an integer width w
ScaleDraw(l, w) == RoundQuotient(MulDivD(l, w))

\* round(f * (wi + wf / 2^20)), the fraction of the product kept to 20 bits
FracOne == Pow2(20)

FixRound(a, b) ==
    a.q + ((a.r[1] * 16 + (a.r[2] \div 4096) + b.q + FracOne \div 2)
           \div FracOne)

ScaleDrawFix(l, wi, wf) == FixRound(MulDivD(l, wi), MulDivD(l, wf))

(***************************************************************************)
(* SeededRNG (xorshift64)                                                  *)
(***************************************************************************)
\* The constructor without the substitution of 1 for a zero seed.
SeededRNGUnguarded(s) == s

\* __init__: self.state = seed if seed != 0 else 1
SeededRNG(s) == IF s # {} THEN s ELSE {0}

\* x ^= (x << k) & 0xFFFFFFFFFFFFFFFF
XorShiftLeft(x, k) == Xor(x, Mask64(Shl(x, k)))

\* x ^= (x >> k) & 0xFFFFFFFFFFFFFFFF
XorShiftRight(x, k) == Xor(x, Mask64(Shr(x, k)))

\* next_u64: the new state, which is also the value returned.
next_u64(state) ==
    XorShiftLeft(XorShiftRight(XorShiftLeft(Mask64(state), 13), 7), 17)

\* The generator after a call that returned u, and the float the call's low
\* 32 bits give: value is the numerator, the float is value / FloatDivisor.
FloatOf(u) == [state |-> u, value |-> Low32(u)]

\* next_float: (self.next_u64() & 0xFFFFFFFF) / 0xFFFFFFFF
next_float(state) == FloatOf(next_u64(state))

\* lo + f * (hi - lo) for the draw f, with lo and hi in units and the result
\* kept to the nearest unit.
RangeValue(f, lo, hi) == lo + ScaleDraw(f, hi - lo)

RangeOf(f, lo, hi) ==
    [state |-> f.state, value |-> RangeValue(f.value, lo, hi)]

\* next_range(lo, hi): lo + self.next_float() * (hi - lo)
next_range(state, lo, hi) == RangeOf(next_float(state), lo, hi)

\* What n successive next_float() calls return, each with the generator
\* state it leaves.
RECURSIVE Draws(_, _)
Draws(state, n) ==
    IF n = 0 THEN <<>>
    ELSE CHOOSE out \in {<<f>> \o Draws(f.state, n - 1) :
                            f \in {next_float(state)}} : TRUE

(***************************************************************************)
(* Layer 0: seed and configuration                                         *)
(***************************************************************************)
\* int(sha256(f"{master_seed}:{layer_id}:{chunk_x}:{chunk_y}:{chunk_z}")
\*     .hexdigest()[:16], 16), tabulated for the master seeds and chunk
\* coordinates of the model: the entry for <<master_seed, x, y, z>> lists the
\* seeds of layers 0..5.
Sha256Prefix ==
    <<42, 0, 0, 0>> :>
      << U64(\hF823, \h2F77, \h4119, \hA96E),
         U64(\h1596, \hDD89, \hF86E, \hE186),
         U64(\h6DC3, \hE096, \hA100, \h63B4),
         U64(\hAB07, \h0022, \h9F36, \h60C2),
         U64(\hB36A, \hF406, \hC3F3, \hF4D0),
         U64(\h4868, \h8331, \h2143, \h43EE) >> @@
    <<42, 1, 0, 0>> :>
      << U64(\h8694, \h7529, \h50CB, \h5846),
         U64(\h539A, \h81D9, \h8A98, \h82DF),
         U64(\hE5D6, \hFCE4, \h79EC, \h6424),
         U64(\h9249, \hE9DA, \h1B50, \hB922),
         U64(\h74F9, \h0093, \h7D89, \h6CAB),
         U64(\hF4D3, \h2BCD, \hEC99, \hEA3A) >> @@
    <<42, 0, 0, 1>> :>
      << U64(\h4050, \hDCF6, \hF107, \h5181),
         U64(\hE7BA, \h5FCE, \hB28A, \h1C67),
         U64(\hB5F4, \hCD4A, \hAEDA, \hEEE5),
         U64(\hEC7E, \hF709, \h7C1B, \hBC3E),
         U64(\h442C, \h5DF8, \h85AB, \h3C93),
         U64(\h0EFD, \hE888, \hA035, \h4B72) >> @@
    <<7, 0, 0, 0>> :>
      << U64(\h53C5, \h2D8A, \hA850, \h7F25),
         U64(\h9B12, \h7B6E, \h0594, \hA07F),
         U64(\h3C6F, \h5A67, \h43C0, \h72C5),
         U64(\h28C8, \h5531, \hC801, \h091E),
         U64(\h81B7, \h1478, \h61CF, \hE928),
         U64(\h3066, \h410F, \h6558, \h0A4D) >> @@
    <<7, 1, 0, 0>> :>
      << U64(\h78AA, \h5B19, \h47FF, \hAC3D),
         U64(\h71C5, \h44F4, \h5137, \hEB63),
         U64(\hD70A, \h8A6F, \h7C10, \h55DA),
         U64(\h4077, \h1E97, \hEC34, \h42D1),
         U64(\h448B, \h4DBF, \hAAC1, \h5066),
         U64(\hE51E, \h8DC4, \h81F1, \hE7E7) >> @@
    <<7, 0, 0, 1>> :>
      << U64(\h93D3, \h0219, \h81A0, \hCB83),
         U64(\hFBF4, \h4D8F, \h6DE6, \h052F),
         U64(\hB659, \hE73E, \h7332, \hCE82),
         U64(\h64A1, \h2263, \hF7F4, \hDF16),
         U64(\h8CD7, \h0EF0, \hE90A, \h7D9F),
         U64(\h3CB9, \hDDB0, \hD79D, \h865E) >> @@
    <<172384247, 0, 0, 0>> :>
      << U64(\hCF00, \h0DD1, \h7248, \hF3E3),
         U64(\h7ED7, \h1774, \h294C, \h91DC),
         U64(\h330F, \hA936, \h1E1C, \h5938),
         U64(\hBDDA, \h8976, \hD321, \h39BB),
         U64(\h265F, \h3CD1, \h4A73, \hE7AF),
         U64(\hD01C, \h4683, \hA65A, \hB6EE) >> @@
    <<172384247, 1, 0, 0>> :>
      << U64(\h6C67, \h2757, \h04D9, \h4A3E),
         U64(\h183A, \h755B, \hCDED, \hB01F),
         U64(\hC755, \h9BCB, \h7086, \h70A2),
         U64(\h3D05, \h3FE9, \h34CB, \hBF9C),
         U64(\hCA32, \h4E49, \h8D94, \h2715),
         U64(\hE7D8, \h4B23, \h36F6, \hD179) >> @@
    <<172384247, 0, 0, 1>> :>
      << U64(\hD8A2, \h78C5, \hFA9D, \h305A),
         U64(\hBD46, \hE2C7, \hFAC1, \h537E),
         U64(\h27AF, \hE839, \h01D5, \hBC23),
         U64(\h9B5B, \h103C, \h96EE, \h2125),
         U64(\hA72A, \h3DC0, \h1E94, \hFFDF),
         U64(\hBAF5, \hAC59, \h8D13, \hC49A) >> @@
    <<7142, 0, 0, 0>> :>
      << U64(\h2744, \h56DA, \hF88F, \h288B),
         U64(\h4156, \h0E05, \h4836, \h75F2),
         U64(\h1C0A, \h0772, \h0B36, \h6F7E),
         U64(\h50C6, \h1E0E, \hB872, \h8D3D),
         U64(\h9D6E, \h0286, \h9CD6, \h5A89),
         U64(\hA78E, \h5D04, \h3615, \hD41D) >> @@
    <<7142, 0, 0, 1>> :>
      << U64(\h9F28, \hBEA1, \hB7BE, \h2C7F),
         U64(\h461D, \h7BC2, \h0682, \h3FF8),
         U64(\hC7A2, \hDB7A, \h972D, \hD6AF),
         U64(\h6EA2, \h9E2B, \hB4D5, \h2621),
         U64(\h51F6, \hDCCB, \hC47D, \h2046),
         U64(\h5311, \hDCF4, \h5599, \hB9FC) >> @@
    <<1613883, 0, 0, 0>> :>
      << U64(\hFCC9, \h0023, \h069A, \hE4D9),
         U64(\hD003, \hE772, \h870C, \h6562),
         U64(\hEABE, \hEAE9, \h5577, \h194F),
         U64(\h4518, \hABE5, \hA8FC, \hCBA8),
         U64(\h6D43, \h15BB, \h82A4, \hF404),
         U64(\h9BB8, \hDD12, \h87AA, \hDF80) >> @@
    <<1613883, 0, 0, 1>> :>
      << U64(\h352F, \h091E, \hA792, \h1228),
         U64(\h799A, \h0F70, \h1F58, \hD167),
         U64(\h9221, \h1D5E, \h65E9, \hD4AF),
         U64(\hEAF2, \hAF7B, \h5854, \hB232),
         U64(\h4975, \h0147, \h15E1, \h34B1),
         U64(\h4630, \h22F7, \hB825, \hCEC8) >> @@
    <<794880312, 0, 0, 0>> :>
      << U64(\h97F5, \hBB29, \hCA6A, \h3A1C),
         U64(\h6DA6, \h7F23, \h945B, \h85A0),
         U64(\hFCDF, \h73E7, \hFF2A, \h9A1E),
         U64(\h25C1, \h83FE, \hCC18, \h0320),
         U64(\hC321, \hD033, \h5F43, \hAA89),
         U64(\h2E7B, \h69F9, \hD482, \h28F7) >> @@
    <<794880312, 1, 0, 0>> :>
      << U64(\hA4A8, \h45F3, \hA0F8, \h426B),
         U64(\h0D72, \h63D7, \h5DF8, \hF208),
         U64(\h1259, \h5C00, \hE4B3, \hBCB8),
         U64(\h8471, \hF719, \hC1A5, \h14ED),
         U64(\h4204, \h8398, \h0CF8, \hD86F),
         U64(\h3DBC, \h18A0, \h6FE8, \h62C1) >> @@
    <<794880312, 0, 0, 1>> :>
      << U64(\h4234, \h33E8, \h815E, \h3221),
         U64(\h1A33, \h91C4, \h8A14, \h3060),
         U64(\h9726, \hB45A, \h6191, \h5103),
         U64(\hEAC4, \h0F91, \hA020, \h3C72),
         U64(\hD919, \h45A9, \hFA7C, \hCFE1),
         U64(\hBEF1, \h2121, \h3A2D, \h45E9) >>

derive_layer_seed(master_seed, layer_id, chunk_x, chunk_y, chunk_z) ==
    Sha256Prefix[<<master_seed, chunk_x, chunk_y, chunk_z>>][layer_id + 1]

LayerIds == 0..5

\* The chunk coordinates passed to derive_layer_seed in reverse order.
GenerationConfigReversed(master_seed, content_type, density, chunk_coords) ==
    [master_seed |-> master_seed,
     content_type |-> content_type,
     density |-> density,
     chunk_coords |-> chunk_coords,
     layer_seeds |->
        [i \in 0..5 |->
            derive_layer_seed(master_seed, i, chunk_coords[3],
                              chunk_coords[2], chunk_coords[1])]]

\* GenerationConfig.__init__
GenerationConfig(master_seed, content_type, density, chunk_coords) ==
    [master_seed |-> master_seed,
     content_type |-> content_type,
     density |-> density,
     chunk_coords |-> chunk_coords,
     layer_seeds |->
        [i \in LayerIds |->
            derive_layer_seed(master_seed, i, chunk_coords[1],
                              chunk_coords[2], chunk_coords[3])]]

(***************************************************************************)
(* Layer 1: spatial distribution                                           *)
(***************************************************************************)
ChunkSize == 64
DensityScale == 16

IMax(a, b) == IF a >= b THEN a ELSE b
IMin(a, b) == IF a <= b THEN a ELSE b

\* max(1, int(config.density * 16)), the density being a count of sixteenths
GridDivisions(density) == IMax(1, density)

\* cell_size = max(1.0, chunk_size / GridDivisions), as <<numerator, denominator>>
CellSize(density) ==
    IF ChunkSize >= GridDivisions(density)
    THEN <<ChunkSize, GridDivisions(density)>>
    ELSE <<1, 1>>

\* cols = rows = int(chunk_size / cell_size)
GridSide(density) == (ChunkSize * CellSize(density)[2]) \div CellSize(density)[1]

\* rng.next_float() > config.density: value / 0xFFFFFFFF > density / 16,
\* cross-multiplied and compared limb by limb.
DrawExceeds(value, density) ==
    \/ density < 0
    \/ LET a0 == (value[2] * DensityScale) % Limb
           a1 == (value[1] * DensityScale + (value[2] * DensityScale) \div Limb) % Limb
           a2 == (value[1] * DensityScale + (value[2] * DensityScale) \div Limb) \div Limb
           k == density * (Limb - 1)
           b0 == k % Limb
           b1 == (k + k \div Limb) % Limb
           b2 == (k + k \div Limb) \div Limb
       IN \/ a2 > b2
          \/ a2 = b2 /\ a1 > b1
          \/ a2 = b2 /\ a1 = b1 /\ a0 > b0

\* base + m, over cell[2], rounded to the nearest unit, plus the chunk offset
JitterRound(c, cell, t, r) ==
    c * ChunkSize * Unit + (t \div cell[2])
    + (IF cell[2] - 2 * (t % cell[2]) <= 0
          \/ (cell[2] - 2 * (t % cell[2]) = 1 /\ AtLeastHalf(r))
       THEN 1 ELSE 0)

JitterSum(k, cell, c, m) == JitterRound(c, cell, k * cell[1] * Unit + m.q, m.r)

\* round((k + f) * cell_size + c * chunk_size, 4) in units, f the draw value
\* and cell_size the fraction cell[1] / cell[2]
JitterCoord(k, value, cell, c) ==
    JitterSum(k, cell, c, MulDivD(value, cell[1] * Unit))

\* 2 * math.pi in units: 62831 + 894511 / 2^20 (= 62831.853071...)
TwoPiUnits == 62831
TwoPiFrac == 894511

\* The draws of one cell: the acceptance draw, then x, y, z, scale, rotation.
CellDraws == 6

\* The point with x taken along the rows and y along the columns.
CellPointTransposed(config, row, col, st, d) ==
    IF DrawExceeds(d[1].value, config.density)
    THEN <<d[1].state, st[2]>>
    ELSE <<d[6].state,
           Append(st[2],
              [x |-> JitterCoord(row, d[2].value, CellSize(config.density),
                                 config.chunk_coords[1]),
               y |-> JitterCoord(col, d[3].value, CellSize(config.density),
                                 config.chunk_coords[2]),
               z |-> RangeValue(d[4].value, -20000, 20000)
                     + config.chunk_coords[3] * ChunkSize * Unit,
               scale |-> RangeValue(d[5].value, 5000, 20000),
               rotation |-> ScaleDrawFix(d[6].value, TwoPiUnits, TwoPiFrac),
               type |-> config.content_type])>>

\* The cell's point from its draws d; st is <<generator state, points>>.
\* A rejected cell has made the first draw only.
CellPoint(config, row, col, st, d) ==
    IF DrawExceeds(d[1].value, config.density)
    THEN <<d[1].state, st[2]>>
    ELSE <<d[6].state,
           Append(st[2],
              [x |-> JitterCoord(col, d[2].value, CellSize(config.density),
                                 config.chunk_coords[1]),
               y |-> JitterCoord(row, d[3].value, CellSize(config.density),
                                 config.chunk_coords[2]),
               z |-> RangeValue(d[4].value, -20000, 20000)
                     + config.chunk_coords[3] * ChunkSize * Unit,
               scale |-> RangeValue(d[5].value, 5000, 20000),
               rotation |-> ScaleDrawFix(d[6].value, TwoPiUnits, TwoPiFrac),
               type |-> config.content_type])>>

\* The body of the loop for one grid cell.
CellStep(config, row, col, st) ==
    CellPoint(config, row, col, st, Draws(st[1], CellDraws))

\* for col in range(cols)
RECURSIVE ColLoop(_, _, _, _, _)
ColLoop(config, cols, row, col, st) ==
    IF col >= cols THEN st
    ELSE CHOOSE out \in {ColLoop(config, cols, row, col + 1, next) :
                            next \in {CellStep(config, row, col, st)}} : TRUE

\* for row in range(rows)
RECURSIVE RowLoop(_, _, _, _)
RowLoop(config, rows, row, st) ==
    IF row >= rows THEN st
    ELSE CHOOSE out \in {RowLoop(config, rows, row + 1, next) :
                            next \in {ColLoop(config, rows, row, 0, st)}} : TRUE

layer_1_spatial_distribution(config) ==
    RowLoop(config, GridSide(config.density), 0,
            <<SeededRNG(config.layer_seeds[1]), <<>>>>)[2]

(***************************************************************************)
(* Layer 2: skeleton topology                                              *)
(***************************************************************************)
\* The squared distances of the model are numbers <<high, low>> standing for
\* high * 2^24 + low, in square units.
SqBase == Pow2(24)

\* (a - b) ** 2
SqDiff(a, b) ==
    LET d == IF a >= b THEN a - b ELSE b - a
        h == d \div 4096
        l == d % 4096
        c == 2 * h * l
        lo == (c % 4096) * 4096 + l * l
    IN <<h * h + (c \div 4096) + (lo \div SqBase), lo % SqBase>>

SqAdd(p, q) ==
    <<p[1] + q[1] + ((p[2] + q[2]) \div SqBase), (p[2] + q[2]) % SqBase>>

SqLess(p, q) == p[1] < q[1] \/ (p[1] = q[1] /\ p[2] < q[2])

\* _distance(a, b) ** 2: the code compares and rounds the square root, which
\* orders as the squares do.
Distance2(a, b) ==
    SqAdd(SqAdd(SqDiff(a.x, b.x), SqDiff(a.y, b.y)), SqDiff(a.z, b.z))

\* float("inf"): above every distance
Infinity == <<Pow2(30), 0>>

\* The largest r with r * r <= s, found bit by bit.
RECURSIVE SqrtLoop(_, _, _)
SqrtLoop(s, bit, r) ==
    IF bit = 0 THEN r
    ELSE IF ~SqLess(s, SqDiff(r + bit, 0))
         THEN SqrtLoop(s, bit \div 2, r + bit)
         ELSE SqrtLoop(s, bit \div 2, r)

RoundUp(s, r) ==
    IF SqLess(SqAdd(SqDiff(r, 0), <<0, r>>), s) THEN r + 1 ELSE r

\* round(math.sqrt(s), 4) in units
RoundSqrt(s) == RoundUp(s, SqrtLoop(s, Pow2(22), 0))

MaxSkeletonPoints == 256

\* The comparison d <= best_dist: the last pair at the minimum wins.
CloserOrEqual(best, d, i, j) ==
    IF ~SqLess(best.d, d) THEN [d |-> d, i |-> i, j |-> j] ELSE best

\* if d < best_dist: best_dist, best_i, best_j = d, i, j
Closer(best, d, i, j) ==
    IF SqLess(d, best.d) THEN [d |-> d, i |-> i, j |-> j] ELSE best

\* for j in range(n), for an in-tree i; best is [d, i, j]
RECURSIVE InnerScan(_, _, _, _, _)
InnerScan(subset, in_tree, i, j, best) ==
    IF j >= Len(subset) THEN best
    ELSE IF in_tree[j + 1] THEN InnerScan(subset, in_tree, i, j + 1, best)
    ELSE CHOOSE out \in
            {InnerScan(subset, in_tree, i, j + 1, next) :
                next \in {Closer(best,
                                 Distance2(subset[i + 1], subset[j + 1]),
                                 i, j)}} : TRUE

\* for i in range(n)
RECURSIVE OuterScan(_, _, _, _)
OuterScan(subset, in_tree, i, best) ==
    IF i >= Len(subset) THEN best
    ELSE IF ~in_tree[i + 1] THEN OuterScan(subset, in_tree, i + 1, best)
    ELSE CHOOSE out \in
            {OuterScan(subset, in_tree, i + 1, next) :
                next \in {InnerScan(subset, in_tree, i, 0, best)}} : TRUE

\* The bone recorded without marking its far joint as in the tree.
PrimBoneUnmarked(st, best, stiff) ==
    IF SqLess(best.d, Infinity)
    THEN [in_tree |-> st.in_tree,
          bones |-> Append(st.bones,
                           [from |-> best.i, to |-> best.j,
                            length |-> RoundSqrt(best.d),
                            stiffness |-> stiff.value]),
          rng |-> stiff.state]
    ELSE st

\* if best_dist < float("inf"): the bone, with its stiffness draw
PrimBone(st, best, stiff) ==
    IF SqLess(best.d, Infinity)
    THEN [in_tree |-> [st.in_tree EXCEPT ![best.j + 1] = TRUE],
          bones |-> Append(st.bones,
                           [from |-> best.i, to |-> best.j,
                            length |-> RoundSqrt(best.d),
                            stiffness |-> stiff.value]),
          rng |-> stiff.state]
    ELSE st

\* One iteration of "for _ in range(n - 1)"; st is [in_tree, bones, rng].
PrimStep(subset, st) ==
    PrimBone(st,
             OuterScan(subset, st.in_tree, 0,
                       [d |-> Infinity, i |-> 0, j |-> 0]),
             next_range(st.rng, 3000, 10000))

RECURSIVE PrimLoop(_, _, _)
PrimLoop(subset, k, st) ==
    IF k = 0 THEN st
    ELSE CHOOSE out \in {PrimLoop(subset, k - 1, next) :
                            next \in {PrimStep(subset, st)}} : TRUE

\* connectivity[i] after the loop over the bones
Connectivity(bones, i) ==
    Cardinality({k \in 1..Len(bones) : bones[k].from = i})
    + Cardinality({k \in 1..Len(bones) : bones[k].to = i})

JointType(c) == IF c <= 1 THEN "leaf" ELSE IF c <= 3 THEN "branch" ELSE "hub"

\* {**pt, "joint_type": ..., "connectivity": ...} for every point of subset
Annotated(subset, bones) ==
    [joints |->
        [i \in 1..Len(subset) |->
            [joint_type |-> JointType(Connectivity(bones, i - 1)),
             connectivity |-> Connectivity(bones, i - 1)] @@ subset[i]],
     bones |-> bones]

\* The tree over subset = points[:256]
Skeleton(config, subset) ==
    Annotated(subset,
              PrimLoop(subset, Len(subset) - 1,
                       [in_tree |-> [i \in 1..Len(subset) |-> i = 1],
                        bones |-> <<>>,
                        rng |-> SeededRNG(config.layer_seeds[2])]).bones)

\* The list taken whole, as points[:] would.
SubsetUncapped(points) == points

\* subset = points[:256]
Subset(points) == SubSeq(points, 1, IMin(Len(points), MaxSkeletonPoints))

layer_2_skeleton_topology(config, points) ==
    IF Len(points) < 2 THEN [joints |-> points, bones |-> <<>>]
    ELSE Skeleton(config, Subset(points))

(***************************************************************************)
(* Layer 3: mesh and geometry                                              *)
(***************************************************************************)
segments_per_bone == 6
radial_divisions == 8

\* The ratio cut to 4 decimals instead of rounded.
RoundRatioTruncated(a, b) == (Unit * a) \div b

\* round(a / b, 4) in units, for a >= 0 and b > 0
RoundRatio(a, b) == (2 * Unit * a + b) \div (2 * b)

\* joints[i] of a Python list: a negative index counts from the end, an index
\* outside -len..len-1 raises IndexError.
IndexRaises(joints, i) == i >= Len(joints) \/ i < -Len(joints)

ListItem(joints, i) ==
    IF i >= 0 THEN joints[i + 1] ELSE joints[Len(joints) + i + 1]

\* One vertex of ring seg.  x, y and z are kept as what the code computes
\* them from: the ring centre times segments_per_bone (px, py, pz), the
\* bone's base radius, and the ring and the radial division that fix the
\* taper and the angle.
RingVertex(j_from, j_to, base_radius, seg, rad) ==
    [px |-> segments_per_bone * j_from.x + (j_to.x - j_from.x) * seg,
     py |-> segments_per_bone * j_from.y + (j_to.y - j_from.y) * seg,
     pz |-> segments_per_bone * j_from.z + (j_to.z - j_from.z) * seg,
     base_radius |-> base_radius, seg |-> seg, rad |-> rad]

RingWeight(bone_idx, seg) ==
    [bone |-> bone_idx,
     weight_from |-> RoundRatio(segments_per_bone - seg, segments_per_bone),
     weight_to |-> RoundRatio(seg, segments_per_bone)]

\* The quad with rad + 1 taken as it is, not modulo radial_divisions.
QuadIndicesUnwrapped(base_v, next_base, rad) ==
    <<base_v + rad, next_base + rad, next_base + rad + 1,
      base_v + rad, next_base + rad + 1, base_v + rad + 1>>

\* The six indices of the quad at rad, two triangles.
QuadIndices(base_v, next_base, rad) ==
    LET r_next == (rad + 1) % radial_divisions
    IN <<base_v + rad, next_base + rad, next_base + r_next,
         base_v + rad, next_base + r_next, base_v + r_next>>

RECURSIVE RingIndices(_, _, _)
RingIndices(base_v, next_base, rad) ==
    IF rad >= radial_divisions THEN <<>>
    ELSE QuadIndices(base_v, next_base, rad)
         \o RingIndices(base_v, next_base, rad + 1)

\* The iteration without the test "seg < segments_per_bone": the last ring
\* too gets triangles to a ring after it.
SegStepEveryRing(j_from, j_to, bone_idx, base_radius, seg, st) ==
    [st EXCEPT
        !.vertices = @ \o [k \in 1..radial_divisions |->
                              RingVertex(j_from, j_to, base_radius, seg, k - 1)],
        !.skinning_weights = @ \o [k \in 1..radial_divisions |->
                                      RingWeight(bone_idx, seg)],
        !.indices = @ \o RingIndices(Len(st.vertices),
                                     Len(st.vertices) + radial_divisions, 0)]

\* One iteration of "for seg in range(segments_per_bone + 1)"; st is
\* [rng, vertices, indices, skinning_weights, raised].
SegStep(j_from, j_to, bone_idx, base_radius, seg, st) ==
    LET vertices == st.vertices
            \o [k \in 1..radial_divisions |->
                   RingVertex(j_from, j_to, base_radius, seg, k - 1)]
        weights == st.skinning_weights
            \o [k \in 1..radial_divisions |-> RingWeight(bone_idx, seg)]
        base_v == Len(vertices) - radial_divisions
    IN [st EXCEPT !.vertices = vertices,
                  !.skinning_weights = weights,
                  !.indices =
                      IF seg < segments_per_bone
                      THEN @ \o RingIndices(base_v, base_v + radial_divisions, 0)
                      ELSE @]

RECURSIVE SegLoop(_, _, _, _, _, _)
SegLoop(j_from, j_to, bone_idx, base_radius, seg, st) ==
    IF seg > segments_per_bone THEN st
    ELSE CHOOSE out \in
            {SegLoop(j_from, j_to, bone_idx, base_radius, seg + 1, next) :
                next \in {SegStep(j_from, j_to, bone_idx, base_radius, seg,
                                  st)}} : TRUE

\* True when the code skips the bone.
BoneSkipped(joints, bone) ==
    bone.from >= Len(joints) \/ bone.to >= Len(joints)

\* The tube of a bone, its base radius the draw r.
Tube(joints, bone_idx, bone, st, r) ==
    SegLoop(ListItem(joints, bone.from), ListItem(joints, bone.to),
            bone_idx, r.value, 0, [st EXCEPT !.rng = r.state])

\* One iteration of "for bone_idx, bone in enumerate(bones)".
BoneStep(joints, bone_idx, bone, st) ==
    IF BoneSkipped(joints, bone) THEN st
    ELSE IF IndexRaises(joints, bone.from) \/ IndexRaises(joints, bone.to)
    THEN [st EXCEPT !.raised = "IndexError"]
    ELSE Tube(joints, bone_idx, bone, st, next_range(st.rng, 1000, 5000))

RECURSIVE BoneLoop(_, _, _, _)
BoneLoop(joints, bones, bone_idx, st) ==
    IF bone_idx >= Len(bones) \/ st.raised # "" THEN st
    ELSE CHOOSE out \in
            {BoneLoop(joints, bones, bone_idx + 1, next) :
                next \in {BoneStep(joints, bone_idx, bones[bone_idx + 1],
                                   st)}} : TRUE

\* The mesh returned, or [raised |-> "IndexError"] when the call raises.
Mesh(st) ==
    IF st.raised # "" THEN [raised |-> st.raised]
    ELSE [vertices |-> st.vertices,
          indices |-> st.indices,
          skinning_weights |-> st.skinning_weights,
          triangle_count |-> Len(st.indices) \div 3]

layer_3_mesh_geometry(config, skeleton) ==
    Mesh(BoneLoop(skeleton.joints, skeleton.bones, 0,
                  [rng |-> SeededRNG(config.layer_seeds[3]),
                   vertices |-> <<>>, indices |-> <<>>,
                   skinning_weights |-> <<>>, raised |-> ""]))

(***************************************************************************)
(* Layer 4: assets and animation                                           *)
(***************************************************************************)
\* palettes, the colours in units
palettes(content_type) ==
    IF content_type = "vegetation"
    THEN <<<<2000, 6000, 2000>>, <<1500, 5000, 1500>>, <<3000, 7000, 1000>>>>
    ELSE IF content_type = "mineral"
    THEN <<<<5000, 5000, 5500>>, <<6000, 5800, 5500>>, <<4000, 4000, 4500>>>>
    ELSE <<<<6000, 4000, 3000>>, <<5000, 3500, 2500>>, <<7000, 5000, 4000>>>>

tex_size == 64
SampleSize == 4

\* round(min(1, max(0, c)), 4)
Clamp01(c) == IMin(Unit, IMax(0, c))

\* palette[int(rng.next_float() * len(palette)) % len(palette)], f the draw
PaletteEntry(palette, f) ==
    palette[(MulDivD(f, Len(palette)).q % Len(palette)) + 1]

Shaded(base, noise) ==
    [r |-> Clamp01(base[1] + noise),
     g |-> Clamp01(base[2] + noise),
     b |-> Clamp01(base[3] + noise)]

\* One texel: the palette entry from one draw, the noise from the next.
Texel(palette, f, g) ==
    Shaded(PaletteEntry(palette, f), RangeValue(g, -500, 500))

\* texels[:k], from the draws d: only the first texels reach the output, and
\* each comes from the draws before it alone.
FirstTexels(palette, d, k) ==
    [i \in 1..k |-> Texel(palette, d[2 * i - 1].value, d[2 * i].value)]

\* bone.get(key, default)
BoneGet(bone, key, default) ==
    IF key \in DOMAIN bone THEN bone[key] ELSE default

\* The rig joints taken from the bones in reverse order.
RigJointsReversed(bones) ==
    [i \in 1..Len(bones) |->
        [id |-> i - 1,
         name |-> <<"bone", i - 1>>,
         length |-> BoneGet(bones[Len(bones) + 1 - i], "length", Unit),
         stiffness |-> BoneGet(bones[Len(bones) + 1 - i], "stiffness",
                               Unit \div 2)]]

RigJoints(bones) ==
    [i \in 1..Len(bones) |->
        [id |-> i - 1,
         name |-> <<"bone", i - 1>>,
         length |-> BoneGet(bones[i], "length", Unit),
         stiffness |-> BoneGet(bones[i], "stiffness", Unit \div 2)]]

MaxAnimatedJoints == 16
KeyframeStride == 5

ClipFrames(clip_name) == IF clip_name = "idle" THEN 30 ELSE 60

\* The keyframe with a transform for every rig joint, however many.
KeyframeEveryJoint(clip_name, f, rig_count) ==
    [frame |-> f,
     transforms |->
        [k \in 1..rig_count |->
            [joint |-> k - 1,
             amplitude |-> IF clip_name = "idle" THEN 500 ELSE 3000,
             t |-> <<f, ClipFrames(clip_name)>>,
             rz |-> 0]]]

\* rx and ry are kept as the amplitude (units), the time f / frames and the
\* joint they are computed from.
Keyframe(clip_name, f, rig_count) ==
    [frame |-> f,
     transforms |->
        [k \in 1..IMin(rig_count, MaxAnimatedJoints) |->
            [joint |-> k - 1,
             amplitude |-> IF clip_name = "idle" THEN 500 ELSE 3000,
             t |-> <<f, ClipFrames(clip_name)>>,
             rz |-> 0]]]

Clip(clip_name, rig_count) ==
    LET frames == ClipFrames(clip_name)
        count == (frames + KeyframeStride - 1) \div KeyframeStride
    IN [name |-> clip_name,
        fps |-> 30,
        total_frames |-> frames,
        keyframe_count |-> count,
        keyframes |-> [k \in 1..count |->
                          Keyframe(clip_name, (k - 1) * KeyframeStride,
                                   rig_count)]]

layer_4_assets_animation(config, mesh, skeleton) ==
    LET palette == palettes(config.content_type)
        rig_joints == RigJoints(skeleton.bones)
    IN [textures |->
            <<[name |-> <<config.content_type, "diffuse">>,
               width |-> tex_size,
               height |-> tex_size,
               pixel_count |-> tex_size * tex_size,
               sample |-> FirstTexels(palette,
                                      Draws(SeededRNG(config.layer_seeds[4]),
                                            2 * SampleSize),
                                      SampleSize)]>>,
        rig |-> [joint_count |-> Len(rig_joints), joints |-> rig_joints],
        animations |-> <<Clip("idle", Len(rig_joints)),
                         Clip("walk", Len(rig_joints))>>]

(***************************************************************************)
(* Layer 5: world integration                                              *)
(***************************************************************************)
LodLevels == 3

\* The reduced count rounded up instead of cut by int().
LodCountCeiling(count, lod_level) ==
    IMax(1, (count + Pow2(lod_level) - 1) \div Pow2(lod_level))

\* max(1, int(count * (1.0 / 2 ** lod_level)))
LodCount(count, lod_level) == IMax(1, count \div Pow2(lod_level))

\* The two zones, their radii (in units) from the draws d.
CreatureZones(d) ==
    [rng |-> d[2].state,
     zones |-> <<[type |-> "awareness",
                  radius |-> RangeValue(d[1].value, 100000, 300000),
                  trigger |-> "proximity"],
                 [type |-> "combat",
                  radius |-> RangeValue(d[2].value, 30000, 80000),
                  trigger |-> "aggression"]>>]

\* The zones emitted whatever the content type.
InteractionZonesAnyType(content_type, state) == CreatureZones(Draws(state, 2))

\* The zones and the generator as the zones leave it.
InteractionZones(content_type, state) ==
    IF content_type = "creature" THEN CreatureZones(Draws(state, 2))
    ELSE [rng |-> state, zones |-> <<>>]

\* "bounding_sphere": the centre of the chunk's footprint at the chunk's
\* base height, and the fixed radius.
bounding_sphere(config) ==
    [cx |-> config.chunk_coords[1] * ChunkSize + 32,
     cy |-> config.chunk_coords[2] * ChunkSize + 32,
     cz |-> config.chunk_coords[3] * ChunkSize,
     radius |-> 45]

layer_5_world_integration(config, mesh, assets) ==
    LET cx == config.chunk_coords[1]
        cy == config.chunk_coords[2]
        cz == config.chunk_coords[3]
        vertex_count == Len(mesh.vertices)
        tri_count == mesh.triangle_count
        lods == [k \in 1..LodLevels |->
                    [level |-> k - 1,
                     distance |-> (k - 1) * 50,
                     triangle_count |-> LodCount(tri_count, k - 1),
                     vertex_count |-> LodCount(vertex_count, k - 1)]]
        content_id == <<"content", config.content_type, cx, cy, cz>>
        zoned == InteractionZones(config.content_type,
                                  SeededRNG(config.layer_seeds[5]))
    IN [scene_graph |->
            <<[id |-> <<"chunk", cx, cy, cz>>,
               type |-> "chunk_root",
               transform |-> [tx |-> cx * ChunkSize, ty |-> cy * ChunkSize,
                              tz |-> cz * ChunkSize],
               children |-> <<content_id>>],
              [id |-> content_id,
               type |-> config.content_type,
               lods |-> lods,
               bounding_sphere |-> bounding_sphere(config),
               has_animation |-> Len(assets.animations) > 0,
               has_physics |-> config.content_type = "creature"]>>,
        interaction_zones |-> zoned.zones,
        export_manifest |-> [format |-> "fbx",
                             meshes |-> 1,
                             materials |-> Len(assets.textures),
                             animations |-> Len(assets.animations),
                             lod_levels |-> Len(lods),
                             total_vertices |-> vertex_count,
                             total_triangles |-> tri_count],
        export_format |-> "fbx"]

(***************************************************************************)
(* Generator harness: one SeededRNG built from any 64-bit seed, its        *)
(* methods called in any order.                                            *)
(***************************************************************************)
\* Seeds: 0, 1, 2^64 - 1, the layer-1 seeds derived for master seeds 42 and
\* 172384247 at chunk (0,0,0), and three seeds picked for their first output
\* (0x0000000100000000, 0x00000000FFFFFFFF, 0x1234567800000000).
RngSeeds ==
    { U64(0, 0, 0, 0), U64(0, 0, 0, 1),
      U64(\hFFFF, \hFFFF, \hFFFF, \hFFFF),
      U64(\h1596, \hDD89, \hF86E, \hE186),
      U64(\h7ED7, \h1774, \h294C, \h91DC),
      U64(\hFFFF, \hFFEF, \hDF36, \h6891),
      U64(\hC08E, \h0440, \h42DB, \hA5B4),
      U64(\h72EE, \h6AAA, \h5491, \h2387) }

\* The (lo, hi) pairs next_range is called with in the layers, in units.
RngRanges ==
    { <<-20000, 20000>>, <<5000, 20000>>, <<3000, 10000>>, <<1000, 5000>>,
      <<-500, 500>>, <<100000, 300000>>, <<30000, 80000>> }

Runs == {1, 2}

\* What a local holds before its assignment.
None == <<>>

\* CACHE_DIR before anything was written: the directory does not exist.
NoCache == [exists |-> FALSE, files |-> <<>>]

NoLocals ==
    [config |-> None, points |-> None, skeleton |-> None, mesh |-> None,
     assets |-> None, scene |-> None, rng5 |-> None]

InitRNG ==
    /\ seed \in RngSeeds
    /\ rng = SeededRNG(seed)
    /\ calls = 0
    /\ ret = [op |-> "__init__"]
    /\ cache_dir = NoCache
    /\ pc = [r \in Runs |-> "idle"]
    /\ args = [r \in Runs |-> None]
    /\ local = [r \in Runs |-> NoLocals]
    /\ result = [r \in Runs |-> None]
    /\ log = [r \in Runs |-> <<>>]

Call_next_u64 ==
    /\ calls < MaxCalls
    /\ rng' = next_u64(rng)
    /\ ret' = [op |-> "next_u64", value |-> next_u64(rng)]
    /\ calls' = calls + 1
    /\ UNCHANGED <<seed, runVars, cache_dir>>

Call_next_float ==
    /\ calls < MaxCalls
    /\ rng' = next_float(rng).state
    /\ ret' = [op |-> "next_float", value |-> next_float(rng).value]
    /\ calls' = calls + 1
    /\ UNCHANGED <<seed, runVars, cache_dir>>

Call_next_range ==
    /\ calls < MaxCalls
    /\ \E r \in RngRanges :
          /\ rng' = next_range(rng, r[1], r[2]).state
          /\ ret' = [op |-> "next_range", lo |-> r[1], hi |-> r[2],
                     value |-> next_range(rng, r[1], r[2]).value]
    /\ calls' = calls + 1
    /\ UNCHANGED <<seed, runVars, cache_dir>>

NextRNG == Call_next_u64 \/ Call_next_float \/ Call_next_range

SpecRNG == InitRNG /\ [][NextRNG]_vars

(***************************************************************************)
(* run_pipeline: two invocations, each stepped statement by statement      *)
(***************************************************************************)
\* The calls of the model.  density is the number of sixteenths.
MasterSeeds == {42, 7, 794880312}
ContentTypes == {"creature", "vegetation", "rock"}
Densities == {0, 2, 3}
ChunkCoords == {<<0, 0, 0>>, <<0, 0, 1>>}
OutputFormats == {"fbx"}

PipelineArgs ==
    [master_seed : MasterSeeds, content_type : ContentTypes,
     density : Densities, chunk_coords : ChunkCoords,
     output_format : OutputFormats]

\* Both invocations are made with the same arguments.
Init ==
    /\ \E a \in PipelineArgs : args = [r \in Runs |-> a]
    /\ pc = [r \in Runs |-> "layer_0"]
    /\ local = [r \in Runs |-> NoLocals]
    /\ result = [r \in Runs |-> None]
    /\ log = [r \in Runs |-> <<>>]
    /\ seed = {}
    /\ rng = SeededRNG(seed)
    /\ calls = 0
    /\ ret = [op |-> "__init__"]
    /\ cache_dir = NoCache

\* The call of a layer, with what it received, added to the log.
Logged(r, layer, received) ==
    [log EXCEPT ![r] = Append(@, [layer |-> layer, received |-> received])]

\* The layer seeds salted per process, as str hashing salts them.
Layer0Salted(r) ==
    /\ pc[r] = "layer_0"
    /\ local' = [local EXCEPT ![r].config =
                    [GenerationConfig(args[r].master_seed,
                                      args[r].content_type, args[r].density,
                                      args[r].chunk_coords)
                     EXCEPT !.layer_seeds = [i \in LayerIds |-> Xor(@[i], {r})]]]
    /\ log' = Logged(r, 0, <<args[r]>>)
    /\ pc' = [pc EXCEPT ![r] = "layer_1"]
    /\ UNCHANGED <<rngVars, cache_dir, args, result>>

\* config = GenerationConfig(master_seed, content_type, density, chunk_coords)
Layer0(r) ==
    /\ pc[r] = "layer_0"
    /\ local' = [local EXCEPT ![r].config =
                    GenerationConfig(args[r].master_seed,
                                     args[r].content_type, args[r].density,
                                     args[r].chunk_coords)]
    /\ log' = Logged(r, 0, <<args[r]>>)
    /\ pc' = [pc EXCEPT ![r] = "layer_1"]
    /\ UNCHANGED <<rngVars, cache_dir, args, result>>

\* The points drawn for one config object shared by the invocations, the
\* one of the first invocation.
Layer1SharedConfig(r) ==
    /\ pc[r] = "layer_1"
    /\ local' = [local EXCEPT ![r].points =
                    layer_1_spatial_distribution(
                        GenerationConfig(args[1].master_seed,
                                         args[1].content_type,
                                         args[1].density,
                                         args[1].chunk_coords))]
    /\ log' = Logged(r, 1, <<local[r].config>>)
    /\ pc' = [pc EXCEPT ![r] = "layer_2"]
    /\ UNCHANGED <<rngVars, cache_dir, args, result>>

\* points = layer_1_spatial_distribution(config)
Layer1(r) ==
    /\ pc[r] = "layer_1"
    /\ local' = [local EXCEPT ![r].points =
                    layer_1_spatial_distribution(local[r].config)]
    /\ log' = Logged(r, 1, <<local[r].config>>)
    /\ pc' = [pc EXCEPT ![r] = "layer_2"]
    /\ UNCHANGED <<rngVars, cache_dir, args, result>>

\* Layers 2 and 3 skipped when there is no point.
Layer2SkipEmpty(r) ==
    /\ pc[r] = "layer_2"
    /\ IF Len(local[r].points) = 0
       THEN /\ local' = [local EXCEPT
                            ![r].skeleton = [joints |-> <<>>, bones |-> <<>>],
                            ![r].mesh = [vertices |-> <<>>, indices |-> <<>>,
                                         skinning_weights |-> <<>>,
                                         triangle_count |-> 0]]
            /\ log' = log
            /\ pc' = [pc EXCEPT ![r] = "layer_4"]
       ELSE /\ local' = [local EXCEPT ![r].skeleton =
                            layer_2_skeleton_topology(local[r].config,
                                                      local[r].points)]
            /\ log' = Logged(r, 2, <<local[r].config, local[r].points>>)
            /\ pc' = [pc EXCEPT ![r] = "layer_3"]
    /\ UNCHANGED <<rngVars, cache_dir, args, result>>

\* skeleton = layer_2_skeleton_topology(config, points)
Layer2(r) ==
    /\ pc[r] = "layer_2"
    /\ local' = [local EXCEPT ![r].skeleton =
                    layer_2_skeleton_topology(local[r].config,
                                              local[r].points)]
    /\ log' = Logged(r, 2, <<local[r].config, local[r].points>>)
    /\ pc' = [pc EXCEPT ![r] = "layer_3"]
    /\ UNCHANGED <<rngVars, cache_dir, args, result>>

\* Layer 3 clamping config.density to 1/16 at least, in place.
Layer3ClampsDensity(r) ==
    /\ pc[r] = "layer_3"
    /\ local' = [local EXCEPT
                    ![r].mesh = layer_3_mesh_geometry(local[r].config,
                                                      local[r].skeleton),
                    ![r].config.density = IMax(1, @)]
    /\ log' = Logged(r, 3, <<local[r].config, local[r].skeleton>>)
    /\ pc' = [pc EXCEPT ![r] = IF "raised" \in DOMAIN local'[r].mesh
                               THEN "raised" ELSE "layer_4"]
    /\ UNCHANGED <<rngVars, cache_dir, args, result>>

\* mesh = layer_3_mesh_geometry(config, skeleton); an exception ends the run
Layer3(r) ==
    /\ pc[r] = "layer_3"
    /\ local' = [local EXCEPT ![r].mesh =
                    layer_3_mesh_geometry(local[r].config, local[r].skeleton)]
    /\ log' = Logged(r, 3, <<local[r].config, local[r].skeleton>>)
    /\ pc' = [pc EXCEPT ![r] = IF "raised" \in DOMAIN local'[r].mesh
                               THEN "raised" ELSE "layer_4"]
    /\ UNCHANGED <<rngVars, cache_dir, args, result>>

\* Layer 4 drawing from the generator of layer 3 instead of its own.
Layer4SharedGenerator(r) ==
    /\ pc[r] = "layer_4"
    /\ local' = [local EXCEPT ![r].assets =
                    layer_4_assets_animation(
                        [local[r].config EXCEPT
                            !.layer_seeds[4] = local[r].config.layer_seeds[3]],
                        local[r].mesh, local[r].skeleton)]
    /\ log' = Logged(r, 4, <<local[r].config, local[r].mesh,
                             local[r].skeleton>>)
    /\ pc' = [pc EXCEPT ![r] = "layer_5"]
    /\ UNCHANGED <<rngVars, cache_dir, args, result>>

\* assets = layer_4_assets_animation(config, mesh, skeleton)
Layer4(r) ==
    /\ pc[r] = "layer_4"
    /\ local' = [local EXCEPT ![r].assets =
                    layer_4_assets_animation(local[r].config, local[r].mesh,
                                             local[r].skeleton)]
    /\ log' = Logged(r, 4, <<local[r].config, local[r].mesh,
                             local[r].skeleton>>)
    /\ pc' = [pc EXCEPT ![r] = "layer_5"]
    /\ UNCHANGED <<rngVars, cache_dir, args, result>>

\* scene = layer_5_world_integration(config, mesh, assets)
Layer5(r) ==
    /\ pc[r] = "layer_5"
    /\ local' = [local EXCEPT
                    ![r].scene =
                        layer_5_world_integration(local[r].config,
                                                  local[r].mesh,
                                                  local[r].assets),
                    ![r].rng5 =
                        InteractionZones(
                            local[r].config.content_type,
                            SeededRNG(local[r].config.layer_seeds[5])).rng]
    /\ log' = Logged(r, 5, <<local[r].config, local[r].mesh,
                             local[r].assets>>)
    /\ pc' = [pc EXCEPT ![r] = "result"]
    /\ UNCHANGED <<rngVars, cache_dir, args, result>>

\* dict.get(key, default)
Get(d, key, default) == IF key \in DOMAIN d THEN d[key] ELSE default

\* GenerationConfig.to_dict: the five attributes, chunk_coords copied into a
\* list (a tuple and a list are both sequences here).
to_dict(self) ==
    [master_seed |-> self.master_seed,
     content_type |-> self.content_type,
     density |-> self.density,
     chunk_coords |-> [i \in 1..Len(self.chunk_coords) |-> self.chunk_coords[i]],
     layer_seeds |-> self.layer_seeds]

\* result = {...}, from the locals loc of run_pipeline
ResultRecord(output_format, loc) ==
    [config |-> to_dict(loc.config),
     points |-> Len(loc.points),
     skeleton |-> [joints |-> Len(Get(loc.skeleton, "joints", <<>>)),
                   bones |-> Len(Get(loc.skeleton, "bones", <<>>))],
     mesh |-> [vertices |-> Len(Get(loc.mesh, "vertices", <<>>)),
               triangles |-> Get(loc.mesh, "triangle_count", 0)],
     assets |-> [textures |-> Len(Get(loc.assets, "textures", <<>>)),
                 rig_joints |-> Get(Get(loc.assets, "rig", <<>>),
                                    "joint_count", 0),
                 animations |-> Len(Get(loc.assets, "animations", <<>>))],
     scene |-> [nodes |-> Len(Get(loc.scene, "scene_graph", <<>>)),
                interaction_zones |->
                    Len(Get(loc.scene, "interaction_zones", <<>>)),
                export_format |-> Get(loc.scene, "export_format",
                                      output_format)],
     output_format |-> output_format]

\* result = {...}; return result
Return(r) ==
    /\ pc[r] = "result"
    /\ result' = [result EXCEPT ![r] =
                     ResultRecord(args[r].output_format, local[r])]
    /\ log' = Logged(r, 6, <<local[r]>>)
    /\ pc' = [pc EXCEPT ![r] = "done"]
    /\ UNCHANGED <<rngVars, cache_dir, args, local>>

Next ==
    \E r \in Runs :
        \/ Layer0(r)
        \/ Layer1(r)
        \/ Layer2(r)
        \/ Layer3(r)
        \/ Layer4(r)
        \/ Layer5(r)
        \/ Return(r)

Spec == Init /\ [][Next]_vars

(***************************************************************************)
(* run_pipeline executed alone, from its first statement to its return,    *)
(* and two invocations made with any two argument records                  *)
(***************************************************************************)
\* scene = layer_5_world_integration(config, mesh, assets), then the result
PipelineLayer5(output_format, loc) ==
    CHOOSE out \in
        {ResultRecord(output_format, [loc EXCEPT !.scene = scene]) :
            scene \in {layer_5_world_integration(loc.config, loc.mesh,
                                                 loc.assets)}} : TRUE

PipelineLayer4(output_format, loc) ==
    CHOOSE out \in
        {PipelineLayer5(output_format, [loc EXCEPT !.assets = assets]) :
            assets \in {layer_4_assets_animation(loc.config, loc.mesh,
                                                 loc.skeleton)}} : TRUE

PipelineLayer3(output_format, loc) ==
    CHOOSE out \in
        {PipelineLayer4(output_format, [loc EXCEPT !.mesh = mesh]) :
            mesh \in {layer_3_mesh_geometry(loc.config, loc.skeleton)}} : TRUE

PipelineLayer2(output_format, loc) ==
    CHOOSE out \in
        {PipelineLayer3(output_format, [loc EXCEPT !.skeleton = skeleton]) :
            skeleton \in {layer_2_skeleton_topology(loc.config,
                                                    loc.points)}} : TRUE

PipelineLayer1(output_format, loc) ==
    CHOOSE out \in
        {PipelineLayer2(output_format, [loc EXCEPT !.points = points]) :
            points \in {layer_1_spatial_distribution(loc.config)}} : TRUE

run_pipeline(master_seed, content_type, density, chunk_coords, output_format) ==
    PipelineLayer1(output_format,
                   [NoLocals EXCEPT
                       !.config = GenerationConfig(master_seed, content_type,
                                                   density, chunk_coords)])

\* The arguments of the second invocation when the two differ.
OtherArgs ==
    { [master_seed |-> 42, content_type |-> "creature", density |-> 3,
       chunk_coords |-> <<0, 0, 0>>, output_format |-> "fbx"],
      [master_seed |-> 794880312, content_type |-> "rock", density |-> 0,
       chunk_coords |-> <<0, 0, 1>>, output_format |-> "fbx"],
      [master_seed |-> 7, content_type |-> "vegetation", density |-> 2,
       chunk_coords |-> <<0, 0, 1>>, output_format |-> "fbx"] }

InitIso ==
    /\ \E a \in PipelineArgs, b \in OtherArgs :
          args = [r \in Runs |-> IF r = 1 THEN a ELSE b]
    /\ pc = [r \in Runs |-> "layer_0"]
    /\ local = [r \in Runs |-> NoLocals]
    /\ result = [r \in Runs |-> None]
    /\ log = [r \in Runs |-> <<>>]
    /\ seed = {}
    /\ rng = SeededRNG(seed)
    /\ calls = 0
    /\ ret = [op |-> "__init__"]
    /\ cache_dir = NoCache

SpecIso == InitIso /\ [][Next]_vars

(***************************************************************************)
(* run_pipeline called with any output format: --output_format of main     *)
(* takes any string and run_pipeline's parameter is not validated.         *)
(***************************************************************************)
AnyFormats == {"fbx", "gltf", "obj"}

InitFmt ==
    /\ \E a \in [master_seed : MasterSeeds, content_type : ContentTypes,
                 density : Densities, chunk_coords : ChunkCoords,
                 output_format : AnyFormats] :
          args = [r \in Runs |-> a]
    /\ pc = [r \in Runs |-> "layer_0"]
    /\ local = [r \in Runs |-> NoLocals]
    /\ result = [r \in Runs |-> None]
    /\ log = [r \in Runs |-> <<>>]
    /\ seed = {}
    /\ rng = SeededRNG(seed)
    /\ calls = 0
    /\ ret = [op |-> "__init__"]
    /\ cache_dir = NoCache

SpecFmt == InitFmt /\ [][Next]_vars
(***************************************************************************)
(* layer_1_spatial_distribution called with any float as density: a        *)
(* finite number of sixteenths [finite |-> n], a finite float so large     *)
(* that its product with 16 overflows to inf, an infinity or nan.          *)
(***************************************************************************)
MaxGridSide == 3

\* config.density * 16, in floats
TimesSixteen(density) ==
    IF "finite" \in DOMAIN density THEN density
    ELSE IF density.float = "1e308" THEN [float |-> "inf"]
    ELSE density

\* int(x) raises OverflowError for an infinity and ValueError for nan
IntRaises(x) == "float" \in DOMAIN x

AnyDensity ==
    {[finite |-> n] : n \in {-32, -16, -1, 0, 1, 2, 3, 4, 12, 16, 17, 20, 63,
                             64, 65, 80, 1600}}
    \cup {[float |-> f] : f \in {"1e308", "inf", "-inf", "nan"}}

\* The master seeds of the pipeline, and two whose layer 1, at density
\* 3/16 and chunk (0,0,0), yields a point at a cell's edge (1613883) and a
\* point in the corner of the chunk (7142).
GridSeeds == MasterSeeds \cup {7142, 1613883}

InitL1 ==
    /\ \E m \in GridSeeds, c \in ChunkCoords, d \in AnyDensity :
          args = [r \in Runs |->
                     IF r = 1
                     THEN [master_seed |-> m, content_type |-> "creature",
                           density |-> d, chunk_coords |-> c]
                     ELSE None]
    /\ pc = [r \in Runs |-> IF r = 1 THEN "layer_1_call" ELSE "idle"]
    /\ local = [r \in Runs |-> NoLocals]
    /\ result = [r \in Runs |-> None]
    /\ log = [r \in Runs |-> <<>>]
    /\ seed = {}
    /\ rng = SeededRNG(seed)
    /\ calls = 0
    /\ ret = [op |-> "__init__"]
    /\ cache_dir = NoCache

\* The generator, chunk_size, cell_size, cols and rows of layer 1, or the
\* exception of int(); row, col and st = <<generator, points>> are as the
\* loops start, and cells lists the cell of each point appended.
Call_layer_1_grid ==
    /\ pc[1] = "layer_1_call"
    /\ IF IntRaises(TimesSixteen(args[1].density))
       THEN /\ pc' = [pc EXCEPT ![1] = "layer_1_raised"]
            /\ local' = local
       ELSE /\ pc' = [pc EXCEPT ![1] = "layer_1_cells"]
            /\ local' = [local EXCEPT ![1] =
                  [config |-> GenerationConfig(args[1].master_seed,
                                               args[1].content_type,
                                               args[1].density.finite,
                                               args[1].chunk_coords),
                   cell_size |-> CellSize(args[1].density.finite),
                   cols |-> GridSide(args[1].density.finite),
                   rows |-> GridSide(args[1].density.finite),
                   row |-> 0, col |-> 0,
                   st |-> <<SeededRNG(
                              derive_layer_seed(args[1].master_seed, 1,
                                                args[1].chunk_coords[1],
                                                args[1].chunk_coords[2],
                                                args[1].chunk_coords[3])),
                            <<>>>>,
                   cells |-> <<>>]]
    /\ UNCHANGED <<rngVars, cache_dir, args, result, log>>

\* The points and the cells once the body has run for the cell (row, col)
\* and left st as next.
AfterCell(loc, next) ==
    [loc EXCEPT
        !.st = next,
        !.cells = IF Len(next[2]) > Len(loc.st[2])
                  THEN Append(@, <<loc.row, loc.col>>) ELSE @,
        !.col = IF loc.col + 1 < loc.cols THEN loc.col + 1 ELSE 0,
        !.row = IF loc.col + 1 < loc.cols THEN loc.row ELSE loc.row + 1]

\* One iteration of "for col in range(cols)", in the row of the outer loop,
\* for the grids of the model's size.
Call_layer_1_cell ==
    /\ pc[1] = "layer_1_cells"
    /\ local[1].cols <= MaxGridSide
    /\ local[1].row < local[1].rows
    /\ local' = [local EXCEPT ![1] =
                    AfterCell(local[1],
                              CellStep(local[1].config, local[1].row,
                                       local[1].col, local[1].st))]
    /\ UNCHANGED <<rngVars, cache_dir, args, result, log, pc>>

\* return points, the rows done
Call_layer_1_return ==
    /\ pc[1] = "layer_1_cells"
    /\ local[1].cols <= MaxGridSide
    /\ local[1].row >= local[1].rows
    /\ result' = [result EXCEPT ![1] = local[1].st[2]]
    /\ pc' = [pc EXCEPT ![1] = "layer_1_done"]
    /\ UNCHANGED <<rngVars, cache_dir, args, local, log>>

NextL1 == Call_layer_1_grid \/ Call_layer_1_cell \/ Call_layer_1_return

SpecL1 == InitL1 /\ [][NextL1]_vars

(***************************************************************************)
(* layer_2_skeleton_topology called on any list of points                  *)
(***************************************************************************)
MaxPoints == 4
MaxCoord == 1

\* Points with whole coordinates, where the distances of the code's floats
\* are exact and equal distances are ties in the code too.
GridPoints ==
    {[x |-> a * Unit, y |-> b * Unit, z |-> 0] : a \in 0..MaxCoord, b \in 0..1}

PointLists == UNION {[1..n -> GridPoints] : n \in 0..MaxPoints}

HarnessSeeds == {42, 7}

InitL2 ==
    /\ \E m \in HarnessSeeds, pts \in PointLists :
          local = [r \in Runs |->
                      IF r = 1
                      THEN [NoLocals EXCEPT
                               !.config = GenerationConfig(m, "creature", 4,
                                                           <<0, 0, 0>>),
                               !.points = pts]
                      ELSE NoLocals]
    /\ pc = [r \in Runs |-> IF r = 1 THEN "layer_2_call" ELSE "idle"]
    /\ args = [r \in Runs |-> None]
    /\ result = [r \in Runs |-> None]
    /\ log = [r \in Runs |-> <<>>]
    /\ seed = {}
    /\ rng = SeededRNG(seed)
    /\ calls = 0
    /\ ret = [op |-> "__init__"]
    /\ cache_dir = NoCache

Call_layer_2 ==
    /\ pc[1] = "layer_2_call"
    /\ local' = [local EXCEPT ![1].skeleton =
                    layer_2_skeleton_topology(local[1].config,
                                              local[1].points)]
    /\ pc' = [pc EXCEPT ![1] = "layer_2_done"]
    /\ UNCHANGED <<rngVars, cache_dir, args, result, log>>

NextL2 == Call_layer_2

SpecL2 == InitL2 /\ [][NextL2]_vars

(***************************************************************************)
(* layer_2_skeleton_topology on lists as long as, and longer than, the 256 *)
(* points it keeps, stepped through its statements: the early return or    *)
(* the subset, each iteration of the loop that grows the tree, and the     *)
(* joints.                                                                 *)
(***************************************************************************)
MaxOverCap == 1

\* The pairs the scan compares, i in the tree and j outside it, each as
\* <<squared distance, i, j>>.
Candidates(subset, in_tree) ==
    {<<Distance2(subset[i + 1], subset[j + 1]), i, j>> :
        i \in {a \in 0..(Len(subset) - 1) : in_tree[a + 1]},
        j \in {b \in 0..(Len(subset) - 1) : ~in_tree[b + 1]}}

\* p is kept against q: it is nearer, or as near and visited no later (the
\* scan visits i ascending, then j ascending, and replaces the best only
\* for d < best_dist).
KeptAgainst(p, q) ==
    \/ SqLess(p[1], q[1])
    \/ p[1] = q[1] /\ (p[2] < q[2] \/ (p[2] = q[2] /\ p[3] <= q[3]))

\* The candidate of c that is kept against all of them
KeptOf(c) == CHOOSE p \in c : \A q \in c : KeptAgainst(p, q)

BestOf(p) == [d |-> p[1], i |-> p[2], j |-> p[3]]

\* best_dist, best_i, best_j after the two loops over the candidates c
ScanResult(c) ==
    IF c = {} THEN [d |-> Infinity, i |-> 0, j |-> 0]
    ELSE CHOOSE best \in {BestOf(p) : p \in {KeptOf(c)}} : TRUE

\* The scan of one iteration, as OuterScan leaves it
FirstNearest(subset, in_tree) ==
    CHOOSE best \in {ScanResult(c) : c \in {Candidates(subset, in_tree)}} : TRUE

\* Long lists hold the cells of a grid 16 wide, row by row: all different.
LongList(n) ==
    [k \in 1..n |-> [x |-> ((k - 1) % 16) * Unit,
                     y |-> ((k - 1) \div 16) * Unit, z |-> 0]]

CapLists ==
    {LongList(n) : n \in {0, 1, 2, 3, MaxSkeletonPoints,
                          MaxSkeletonPoints + MaxOverCap}}

InitCap ==
    /\ \E pts \in CapLists :
          local = [r \in Runs |->
                      IF r = 1
                      THEN [config |-> GenerationConfig(42, "creature", 4,
                                                        <<0, 0, 0>>),
                            points |-> pts, subset |-> None, st |-> None,
                            iteration |-> 0, skeleton |-> None]
                      ELSE NoLocals]
    /\ pc = [r \in Runs |-> IF r = 1 THEN "layer_2_call" ELSE "idle"]
    /\ args = [r \in Runs |-> None]
    /\ result = [r \in Runs |-> None]
    /\ log = [r \in Runs |-> <<>>]
    /\ seed = {}
    /\ rng = SeededRNG(seed)
    /\ calls = 0
    /\ ret = [op |-> "__init__"]
    /\ cache_dir = NoCache

\* The generator, the early return, or subset, in_tree and bones
Call_layer_2_head ==
    /\ pc[1] = "layer_2_call"
    /\ IF Len(local[1].points) < 2
       THEN /\ local' = [local EXCEPT ![1].skeleton =
                            [joints |-> local[1].points, bones |-> <<>>]]
            /\ pc' = [pc EXCEPT ![1] = "layer_2_done"]
       ELSE /\ local' = [local EXCEPT
                  ![1].subset = Subset(local[1].points),
                  ![1].st =
                      [in_tree |-> [i \in 1..Len(Subset(local[1].points))
                                      |-> i = 1],
                       bones |-> <<>>,
                       rng |-> SeededRNG(local[1].config.layer_seeds[2])]]
            /\ pc' = [pc EXCEPT ![1] = "layer_2_prim"]
    /\ UNCHANGED <<rngVars, cache_dir, args, result, log>>

\* One iteration of "for _ in range(n - 1)"
Call_layer_2_prim ==
    /\ pc[1] = "layer_2_prim"
    /\ local[1].iteration < Len(local[1].subset) - 1
    /\ local' = [local EXCEPT
          ![1].st = PrimBone(local[1].st,
                             FirstNearest(local[1].subset,
                                          local[1].st.in_tree),
                             next_range(local[1].st.rng, 3000, 10000)),
          ![1].iteration = @ + 1]
    /\ UNCHANGED <<rngVars, cache_dir, args, result, log, pc>>

\* connectivity, joints and the return, once the loop has ended
Call_layer_2_joints ==
    /\ pc[1] = "layer_2_prim"
    /\ local[1].iteration >= Len(local[1].subset) - 1
    /\ local' = [local EXCEPT ![1].skeleton =
                    Annotated(local[1].subset, local[1].st.bones)]
    /\ pc' = [pc EXCEPT ![1] = "layer_2_done"]
    /\ UNCHANGED <<rngVars, cache_dir, args, result, log>>

NextCap == Call_layer_2_head \/ Call_layer_2_prim \/ Call_layer_2_joints

SpecCap == InitCap /\ [][NextCap]_vars

(***************************************************************************)
(* layer_3_mesh_geometry called on any skeleton                            *)
(***************************************************************************)
MaxJoints == 2
MaxBones == 2

\* Indices below, at and inside the ends of the longest joint list.
FromIndices == {-(MaxJoints + 1), -1, 0, 1, MaxJoints}
ToIndices == {-(MaxJoints + 1), -1, 0, MaxJoints}

AnyBones ==
    UNION {[1..n -> [from : FromIndices, to : ToIndices]] : n \in 0..MaxBones}

AnyJoints ==
    {[i \in 1..n |-> [x |-> i * Unit, y |-> 3 * i * Unit, z |-> 0]] :
        n \in 0..MaxJoints}

InitL3 ==
    /\ \E m \in HarnessSeeds, js \in AnyJoints, bs \in AnyBones :
          local = [r \in Runs |->
                      IF r = 1
                      THEN [NoLocals EXCEPT
                               !.config = GenerationConfig(m, "creature", 4,
                                                           <<0, 0, 0>>),
                               !.skeleton = [joints |-> js, bones |-> bs]]
                      ELSE NoLocals]
    /\ pc = [r \in Runs |-> IF r = 1 THEN "layer_3_call" ELSE "idle"]
    /\ args = [r \in Runs |-> None]
    /\ result = [r \in Runs |-> None]
    /\ log = [r \in Runs |-> <<>>]
    /\ seed = {}
    /\ rng = SeededRNG(seed)
    /\ calls = 0
    /\ ret = [op |-> "__init__"]
    /\ cache_dir = NoCache

Call_layer_3 ==
    /\ pc[1] = "layer_3_call"
    /\ local' = [local EXCEPT ![1].mesh =
                    layer_3_mesh_geometry(local[1].config, local[1].skeleton)]
    /\ pc' = [pc EXCEPT ![1] = IF "raised" \in DOMAIN local'[1].mesh
                               THEN "layer_3_raised" ELSE "layer_3_done"]
    /\ UNCHANGED <<rngVars, cache_dir, args, result, log>>

NextL3 == Call_layer_3

SpecL3 == InitL3 /\ [][NextL3]_vars

(***************************************************************************)
(* layer_4_assets_animation called on any skeleton: no bone, a few, and    *)
(* more than the 16 rig joints the clips animate; bones with and without   *)
(* 'length' and 'stiffness'; joints as many as the bones, or one more.     *)
(***************************************************************************)
MaxRigBones == 17

\* Bone k of a list: its length and stiffness differ from every other's.
AnyBone(k, shape) ==
    IF shape = "bare" THEN [from |-> 0, to |-> k]
    ELSE [from |-> 0, to |-> k, length |-> 100 * k + 7,
          stiffness |-> 3000 + k]

AnySkeletons ==
    {[joints |-> [k \in 1..(n + extra) |->
                     [x |-> k * Unit, y |-> 0, z |-> 0]],
      bones |-> [k \in 1..n |-> AnyBone(k, shape)]] :
        n \in 0..MaxRigBones, extra \in {0, 1}, shape \in {"bare", "full"}}

InitL4 ==
    /\ \E c \in ContentTypes, sk \in AnySkeletons :
          local = [r \in Runs |->
                      IF r = 1
                      THEN [NoLocals EXCEPT
                               !.config = GenerationConfig(7, c, 4,
                                                           <<0, 0, 0>>),
                               !.skeleton = sk,
                               !.mesh = [vertices |-> <<>>, indices |-> <<>>,
                                         skinning_weights |-> <<>>,
                                         triangle_count |-> 0]]
                      ELSE NoLocals]
    /\ pc = [r \in Runs |-> IF r = 1 THEN "layer_4_call" ELSE "idle"]
    /\ args = [r \in Runs |-> None]
    /\ result = [r \in Runs |-> None]
    /\ log = [r \in Runs |-> <<>>]
    /\ seed = {}
    /\ rng = SeededRNG(seed)
    /\ calls = 0
    /\ ret = [op |-> "__init__"]
    /\ cache_dir = NoCache

Call_layer_4 ==
    /\ pc[1] = "layer_4_call"
    /\ local' = [local EXCEPT ![1].assets =
                    layer_4_assets_animation(local[1].config, local[1].mesh,
                                             local[1].skeleton)]
    /\ pc' = [pc EXCEPT ![1] = "layer_4_done"]
    /\ UNCHANGED <<rngVars, cache_dir, args, result, log>>

NextL4 == Call_layer_4

SpecL4 == InitL4 /\ [][NextL4]_vars

(***************************************************************************)
(* layer_5_world_integration called on any mesh: any number of vertices    *)
(* and any triangle count, the two unrelated.                              *)
(***************************************************************************)
MaxCount == 9

AnyMeshes ==
    {[vertices |-> [k \in 1..v |-> [x |-> 0, y |-> 0, z |-> 0]],
      indices |-> <<>>, skinning_weights |-> <<>>, triangle_count |-> t] :
        v \in 0..MaxCount, t \in 0..MaxCount}

InitL5 ==
    /\ \E c \in {"creature", "rock"}, m \in AnyMeshes :
          local = [r \in Runs |->
                      IF r = 1
                      THEN [NoLocals EXCEPT
                               !.config = GenerationConfig(42, c, 4,
                                                           <<0, 0, 1>>),
                               !.mesh = m,
                               !.assets =
                                  layer_4_assets_animation(
                                      GenerationConfig(42, c, 4, <<0, 0, 1>>),
                                      m, [joints |-> <<>>, bones |-> <<>>])]
                      ELSE NoLocals]
    /\ pc = [r \in Runs |-> IF r = 1 THEN "layer_5_call" ELSE "idle"]
    /\ args = [r \in Runs |-> None]
    /\ result = [r \in Runs |-> None]
    /\ log = [r \in Runs |-> <<>>]
    /\ seed = {}
    /\ rng = SeededRNG(seed)
    /\ calls = 0
    /\ ret = [op |-> "__init__"]
    /\ cache_dir = NoCache

Call_layer_5 ==
    /\ pc[1] = "layer_5_call"
    /\ local' = [local EXCEPT ![1].scene =
                    layer_5_world_integration(local[1].config, local[1].mesh,
                                              local[1].assets)]
    /\ pc' = [pc EXCEPT ![1] = "layer_5_done"]
    /\ UNCHANGED <<rngVars, cache_dir, args, result, log>>

NextL5 == Call_layer_5

SpecL5 == InitL5 /\ [][NextL5]_vars

(***************************************************************************)
(* Cache keys: compute_cache_key of generation_master.py and of            *)
(* chunk_manager.py, each called by two callers.  A string is the sequence *)
(* of its characters.                                                      *)
(***************************************************************************)
DecimalDigits == <<"0", "1", "2", "3", "4", "5", "6", "7", "8", "9">>

\* The decimal digits of n >= 0
RECURSIVE Decimal(_)
Decimal(n) ==
    IF n < 10 THEN <<DecimalDigits[n + 1]>>
    ELSE Decimal(n \div 10) \o <<DecimalDigits[(n % 10) + 1]>>

\* f"{n}" for an int n
FormatInt(n) == IF n < 0 THEN <<"-">> \o Decimal(-n) ELSE Decimal(n)

\* f"{chunk_coords}" for a tuple of three ints: "(x, y, z)"
FormatTuple(chunk_coords) ==
    <<"(">> \o FormatInt(chunk_coords[1]) \o <<",", " ">>
    \o FormatInt(chunk_coords[2]) \o <<",", " ">>
    \o FormatInt(chunk_coords[3]) \o <<")">>

\* hashlib.sha256(raw.encode()).hexdigest(), SHA-256 taken as collision-free:
\* the digest stands for the string that was hashed.
sha256_hexdigest(raw) == [sha256 |-> raw]

\* generation_master.compute_cache_key
compute_cache_key(master_seed, chunk_coords, generation_version, content_type, params_hash) ==
    sha256_hexdigest(FormatInt(master_seed) \o <<":">>
                     \o FormatTuple(chunk_coords) \o <<":">>
                     \o generation_version \o <<":">>
                     \o content_type \o <<":">>
                     \o params_hash)

GENERATION_VERSION == <<"1", ".", "0", ".", "0", "-", "a", "l", "p", "h", "a">>

\* The coordinates formatted without chunk_coords[2].
ChunkCoordsTextXY(chunk_coords) ==
    FormatInt(chunk_coords[1]) \o <<",">> \o FormatInt(chunk_coords[2])

\* f"{chunk_coords[0]},{chunk_coords[1]},{chunk_coords[2]}"
ChunkCoordsText(chunk_coords) ==
    FormatInt(chunk_coords[1]) \o <<",">> \o FormatInt(chunk_coords[2])
    \o <<",">> \o FormatInt(chunk_coords[3])

\* chunk_manager.compute_cache_key
chunk_manager_compute_cache_key(master_seed, chunk_coords, content_type, params_hash) ==
    sha256_hexdigest(FormatInt(master_seed) \o <<":">>
                     \o ChunkCoordsText(chunk_coords) \o <<":">>
                     \o GENERATION_VERSION \o <<":">>
                     \o content_type \o <<":">>
                     \o params_hash)

\* The arguments of the callers; strings with and without the separator.
KeySeeds == {4, 42}
KeyCoords == {<<0, 0, 0>>, <<0, 0, 1>>, <<10, 0, -1>>}
KeyVersions == {GENERATION_VERSION, <<"1", ".", "1">>}
KeyContentTypes == {<<"r", "o", "c", "k">>, <<"r">>, <<"r", ":", "o">>}
KeyParamsHashes == {<<"a", "0">>, <<"o", ":", "a", "0">>, <<"0">>}

KeyArgs ==
    [master_seed : KeySeeds, chunk_coords : KeyCoords,
     generation_version : KeyVersions, content_type : KeyContentTypes,
     params_hash : KeyParamsHashes]

InitKey ==
    /\ args \in [Runs -> KeyArgs]
    /\ pc = [r \in Runs |-> "key_call"]
    /\ result = [r \in Runs |-> None]
    /\ local = [r \in Runs |-> NoLocals]
    /\ log = [r \in Runs |-> <<>>]
    /\ seed = {}
    /\ rng = SeededRNG(seed)
    /\ calls = 0
    /\ ret = [op |-> "__init__"]
    /\ cache_dir = NoCache

\* key = generation_master.compute_cache_key(...)
Call_compute_cache_key(r) ==
    /\ pc[r] = "key_call"
    /\ result' = [result EXCEPT ![r] =
                     [master |-> compute_cache_key(args[r].master_seed,
                                                   args[r].chunk_coords,
                                                   args[r].generation_version,
                                                   args[r].content_type,
                                                   args[r].params_hash)]]
    /\ pc' = [pc EXCEPT ![r] = "manager_key_call"]
    /\ UNCHANGED <<rngVars, cache_dir, args, local, log>>

\* key = chunk_manager.compute_cache_key(...)
Call_chunk_manager_compute_cache_key(r) ==
    /\ pc[r] = "manager_key_call"
    /\ result' = [result EXCEPT ![r] =
                     [master |-> result[r].master,
                      manager |-> chunk_manager_compute_cache_key(
                                      args[r].master_seed,
                                      args[r].chunk_coords,
                                      args[r].content_type,
                                      args[r].params_hash)]]
    /\ pc' = [pc EXCEPT ![r] = "key_done"]
    /\ UNCHANGED <<rngVars, cache_dir, args, local, log>>

NextKey ==
    \E r \in Runs :
        \/ Call_compute_cache_key(r)
        \/ Call_chunk_manager_compute_cache_key(r)

SpecKey == InitKey /\ [][NextKey]_vars

(***************************************************************************)
(* chunk_manager.py: the cache in CACHE_DIR, one JSON file per key.        *)
(* A Python value is [int |-> n], [str |-> characters], [list |-> items],  *)
(* [tuple |-> items] or [dict |-> <<key, value>> pairs]; the text of a     *)
(* file is kept as the JSON value it spells: [number |-> n],               *)
(* [string |-> characters], [array |-> items] or                           *)
(* [object |-> <<name, value>> pairs].                                     *)
(***************************************************************************)
MaxOps == 4

\* The name json.dumps gives a dict key: a str as it is, an int in decimal.
JsonName(key) == IF "int" \in DOMAIN key THEN FormatInt(key.int) ELSE key.str

\* json.dumps(data, indent=2)
RECURSIVE json_dumps(_)
json_dumps(data) ==
    IF "dict" \in DOMAIN data
    THEN [object |-> [i \in DOMAIN data.dict |->
                         <<JsonName(data.dict[i][1]),
                           json_dumps(data.dict[i][2])>>]]
    ELSE IF "list" \in DOMAIN data
    THEN [array |-> [i \in DOMAIN data.list |-> json_dumps(data.list[i])]]
    ELSE IF "tuple" \in DOMAIN data
    THEN [array |-> [i \in DOMAIN data.tuple |-> json_dumps(data.tuple[i])]]
    ELSE IF "int" \in DOMAIN data
    THEN [number |-> data.int]
    ELSE [string |-> data.str]

\* json.loads(text)
RECURSIVE json_loads(_)
json_loads(text) ==
    IF "object" \in DOMAIN text
    THEN [dict |-> [i \in DOMAIN text.object |->
                       <<[str |-> text.object[i][1]],
                         json_loads(text.object[i][2])>>]]
    ELSE IF "array" \in DOMAIN text
    THEN [list |-> [i \in DOMAIN text.array |-> json_loads(text.array[i])]]
    ELSE IF "number" \in DOMAIN text
    THEN [int |-> text.number]
    ELSE [str |-> text.string]

\* CACHE_DIR / f"{key}.json"
CachePath(key) == [stem |-> key, suffix |-> "json"]

\* CACHE_DIR.glob("*.json")
JsonFiles(dir) == {f \in DOMAIN dir.files : f.suffix = "json"}

\* cache_get(key): the value returned
cache_get(dir, key) ==
    IF dir.exists /\ CachePath(key) \in DOMAIN dir.files
    THEN json_loads(dir.files[CachePath(key)])
    ELSE None

\* cache_put(key, data): the directory afterwards
cache_put(dir, key, data) ==
    [exists |-> TRUE,
     files |-> (CachePath(key) :> json_dumps(data)) @@ dir.files]

\* cache_clear counting the files without unlinking them.
cache_clearCountOnly(dir) ==
    IF ~dir.exists THEN [dir |-> dir, value |-> 0]
    ELSE [dir |-> dir, value |-> Cardinality(JsonFiles(dir))]

\* cache_clear(): the directory afterwards and the count returned
cache_clear(dir) ==
    IF ~dir.exists THEN [dir |-> dir, value |-> 0]
    ELSE [dir |-> [exists |-> TRUE,
                   files |-> [f \in DOMAIN dir.files \ JsonFiles(dir) |->
                                 dir.files[f]]],
          value |-> Cardinality(JsonFiles(dir))]

\* Keys as compute_cache_key returns them: hex digests, here two tokens.
CacheKeys == {"3f9a", "c01d"}

\* Chunk data: a count, a list of coordinates, and the layer seeds keyed by
\* layer number as in the "config" section of run_pipeline's result.
CacheData ==
    { [dict |-> << <<[str |-> <<"p", "o", "i", "n", "t", "s">>],
                     [int |-> 3]>> >>],
      [dict |-> << <<[str |-> <<"c", "o", "o", "r", "d", "s">>],
                     [list |-> <<[int |-> 0], [int |-> 1]>>]>> >>],
      [dict |-> << <<[str |-> <<"l", "a", "y", "e", "r", "_",
                                "s", "e", "e", "d", "s">>],
                     [dict |-> << <<[int |-> 0], [int |-> 5]>> >>]>> >>] }

InitCache ==
    /\ cache_dir = NoCache
    /\ calls = 0
    /\ ret = [op |-> "__init__"]
    /\ log = [r \in Runs |-> <<>>]
    /\ pc = [r \in Runs |-> "idle"]
    /\ args = [r \in Runs |-> None]
    /\ local = [r \in Runs |-> NoLocals]
    /\ result = [r \in Runs |-> None]
    /\ seed = {}
    /\ rng = SeededRNG(seed)

Call_cache_put ==
    /\ calls < MaxOps
    /\ \E key \in CacheKeys, data \in CacheData :
          /\ cache_dir' = cache_put(cache_dir, key, data)
          /\ ret' = [op |-> "cache_put", key |-> key, data |-> data,
                     value |-> None]
          /\ log' = [log EXCEPT ![1] =
                        Append(@, [op |-> "cache_put", key |-> key,
                                   data |-> data])]
    /\ calls' = calls + 1
    /\ UNCHANGED <<seed, rng, pc, args, local, result>>

Call_cache_get ==
    /\ calls < MaxOps
    /\ \E key \in CacheKeys :
          /\ ret' = [op |-> "cache_get", key |-> key,
                     value |-> cache_get(cache_dir, key)]
          /\ log' = [log EXCEPT ![1] =
                        Append(@, [op |-> "cache_get", key |-> key])]
    /\ calls' = calls + 1
    /\ UNCHANGED <<seed, rng, pc, args, local, result, cache_dir>>

Call_cache_clear ==
    /\ calls < MaxOps
    /\ cache_dir' = cache_clear(cache_dir).dir
    /\ ret' = [op |-> "cache_clear", value |-> cache_clear(cache_dir).value]
    /\ log' = [log EXCEPT ![1] = Append(@, [op |-> "cache_clear"])]
    /\ calls' = calls + 1
    /\ UNCHANGED <<seed, rng, pc, args, local, result>>

NextCache == Call_cache_put \/ Call_cache_get \/ Call_cache_clear

SpecCache == InitCache /\ [][NextCache]_vars

(***************************************************************************)
(* Properties                                                              *)
(***************************************************************************)
Done(r) == pc[r] = "done"

RECURSIVE Grown(_, _, _)
Grown(bones, tree, k) ==
    IF k = 0 THEN tree
    ELSE CHOOSE out \in
            {Grown(bones, next, k - 1) :
                next \in {tree
                          \cup {bones[b].to :
                                   b \in {c \in DOMAIN bones :
                                             bones[c].from \in tree}}
                          \cup {bones[b].from :
                                   b \in {c \in DOMAIN bones :
                                             bones[c].to \in tree}}}} : TRUE

\* n - 1 bones over the joints 0..n-1 that connect them all: a spanning tree.
SpanningTree(n, bones) ==
    /\ Len(bones) = n - 1
    /\ \A b \in DOMAIN bones : bones[b].from \in 0..(n - 1)
                               /\ bones[b].to \in 0..(n - 1)
    /\ Grown(bones, {0}, n - 1) = 0..(n - 1)

\* C2 (checked under SpecL2).  Skeleton validity: for n >= 2 input points, n
\* counted after the cap at 256, layer_2_skeleton_topology returns exactly
\* n - 1 bones, each with 'from' and 'to' in 0..n-1, forming a connected
\* acyclic graph over the n joints.
C2_SkeletonValidity ==
    (pc[1] = "layer_2_done" /\ Len(local[1].points) >= 2)
    => SpanningTree(IMin(Len(local[1].points), MaxSkeletonPoints),
                    local[1].skeleton.bones)

C2_Witness ==
    /\ pc[1] = "layer_2_done"
    /\ Len(local[1].points) >= 3
    /\ Len(local[1].skeleton.bones) = Len(local[1].points) - 1
    /\ \E b \in DOMAIN local[1].skeleton.bones :
          local[1].skeleton.bones[b].from # 0

\* C3 (checked under SpecL3).  Mesh alignment: in every mesh returned by
\* layer_3_mesh_geometry, for any joints and bones, skipped bones included,
\* skinning_weights has as many entries as vertices, entry k is the entry of
\* vertex k, and weight_from + weight_to = 1 in every entry.
C3_MeshAlignment ==
    pc[1] = "layer_3_done"
    => /\ Len(local[1].mesh.skinning_weights) = Len(local[1].mesh.vertices)
       /\ \A k \in DOMAIN local[1].mesh.skinning_weights :
             /\ local[1].mesh.skinning_weights[k].weight_from
                + local[1].mesh.skinning_weights[k].weight_to = Unit
             /\ local[1].mesh.skinning_weights[k].weight_to * segments_per_bone
                - local[1].mesh.vertices[k].seg * Unit \in -3..3
             /\ local[1].mesh.skinning_weights[k].bone
                = ((k - 1) \div (radial_divisions * (segments_per_bone + 1)))
                  + Cardinality(
                       {b \in 1..(local[1].mesh.skinning_weights[k].bone) :
                           BoneSkipped(local[1].skeleton.joints,
                                       local[1].skeleton.bones[b])})

C3_Witness ==
    /\ pc[1] = "layer_3_done"
    /\ Len(local[1].mesh.vertices) > 0
    /\ \E b \in DOMAIN local[1].skeleton.bones :
          BoneSkipped(local[1].skeleton.joints, local[1].skeleton.bones[b])
    /\ \E k \in DOMAIN local[1].mesh.skinning_weights :
          local[1].mesh.skinning_weights[k].weight_to = 1667

\* C4 (checked under SpecL3).  Triangle index bound: in every mesh returned
\* by layer_3_mesh_geometry the number of indices is a multiple of 3,
\* triangle_count is that number over 3, and every index is at least 0 and
\* below the number of vertices.
C4_TriangleIndexBound ==
    pc[1] = "layer_3_done"
    => /\ Len(local[1].mesh.indices) % 3 = 0
       /\ local[1].mesh.triangle_count * 3 = Len(local[1].mesh.indices)
       /\ \A k \in DOMAIN local[1].mesh.indices :
             /\ local[1].mesh.indices[k] >= 0
             /\ local[1].mesh.indices[k] < Len(local[1].mesh.vertices)

C4_Witness ==
    /\ pc[1] = "layer_3_done"
    /\ local[1].mesh.triangle_count = 192
    /\ \E k \in DOMAIN local[1].mesh.indices :
          local[1].mesh.indices[k] = Len(local[1].mesh.vertices) - 1

\* C5 (checked under SpecRNG).  Zero-seed safety: a generator built from
\* seed 0 starts with state 1, and for every seed the state is non-zero and
\* below 2^64 after construction and after every next_u64() call.
C5_ZeroSeedSafety ==
    /\ rng # {}
    /\ rng \subseteq Bit
    /\ (seed = {} /\ calls = 0) => rng = {0}

C5_Witness ==
    /\ seed = {}
    /\ calls = MaxCalls
    /\ ret.op = "next_u64"
    /\ ret.value = rng

\* C6 (checked under SpecRNG).  next_float() returns a value in [0,1): the
\* low 32 bits of next_u64() over 0xFFFFFFFF are at least 0 and strictly
\* below 1.
C6_FloatBelowOne ==
    ret.op = "next_float"
    => (LimbLess(ret.value, FloatDivisor) /\ ~LimbLess(ret.value, <<0, 0>>))


\* C7 (checked under Spec).  Empty run: run_pipeline with density 0.0
\* completes every layer and yields zero points, zero joints and bones, and
\* a mesh with zero vertices, indices and skinning weights and triangle
\* count 0.
C7_EmptyRun ==
    \A r \in Runs :
        (Done(r) /\ args[r].density = 0)
        => /\ result[r].points = 0
           /\ result[r].skeleton = [joints |-> 0, bones |-> 0]
           /\ result[r].mesh = [vertices |-> 0, triangles |-> 0]
           /\ Len(local[r].mesh.indices) = 0
           /\ Len(local[r].mesh.skinning_weights) = 0

\* C8 (checked under Spec).  run_pipeline with content_type 'creature' and
\* density 0.0, no points generated, reports zero interaction zones.
C8_NoZonesWithoutPoints ==
    \A r \in Runs :
        (Done(r) /\ args[r].content_type = "creature"
                 /\ args[r].density = 0 /\ result[r].points = 0)
        => result[r].scene.interaction_zones = 0

\* The generator of layer 5 as constructed, and after one and two draws.
Layer5Seed(r) == SeededRNG(local[r].config.layer_seeds[5])

\* C9 (checked under Spec).  Interaction zones are emitted only for
\* creatures: layer 5 returns exactly the zones 'awareness' (trigger
\* 'proximity', radius in [10,30], from the first draw of the layer's
\* generator) and 'combat' (trigger 'aggression', radius in [3,8], from the
\* second draw) when content_type is 'creature'; for every other type it
\* returns no zone and makes no draw.
C9_ZonesCreatureOnly ==
    \A r \in Runs :
        pc[r] \in {"result", "done"}
        => IF local[r].config.content_type = "creature"
           THEN /\ Len(local[r].scene.interaction_zones) = 2
                /\ local[r].scene.interaction_zones[1].type = "awareness"
                /\ local[r].scene.interaction_zones[1].trigger = "proximity"
                /\ local[r].scene.interaction_zones[1].radius
                      \in 100000..300000
                /\ local[r].scene.interaction_zones[1].radius
                      = RangeValue(Low32(next_u64(Layer5Seed(r))),
                                   100000, 300000)
                /\ local[r].scene.interaction_zones[2].type = "combat"
                /\ local[r].scene.interaction_zones[2].trigger = "aggression"
                /\ local[r].scene.interaction_zones[2].radius \in 30000..80000
                /\ local[r].scene.interaction_zones[2].radius
                      = RangeValue(Low32(next_u64(next_u64(Layer5Seed(r)))),
                                   30000, 80000)
                /\ local[r].rng5 = next_u64(next_u64(Layer5Seed(r)))
           ELSE /\ local[r].scene.interaction_zones = <<>>
                /\ local[r].rng5 = Layer5Seed(r)

C9_Witness ==
    /\ Done(1) /\ local[1].config.content_type = "creature"
    /\ Len(local[1].scene.interaction_zones) = 2
    /\ Done(2) /\ local[2].config.content_type = "creature"
    /\ local[2].rng5 # Layer5Seed(2)

\* The layers logged by run r, in order.
LoggedLayers(r) == [k \in DOMAIN log[r] |-> log[r][k].layer]

\* The number of calls run r has made when it is at pc[r].
CallsMade(r) ==
    CASE pc[r] = "layer_0" -> 0
      [] pc[r] = "layer_1" -> 1
      [] pc[r] = "layer_2" -> 2
      [] pc[r] = "layer_3" -> 3
      [] pc[r] = "layer_4" -> 4
      [] pc[r] = "layer_5" -> 5
      [] pc[r] = "result" -> 6
      [] pc[r] = "done" -> 7
      [] OTHER -> -1

\* C10 (checked under Spec).  Stage ordering: every run_pipeline execution
\* performs config construction, then layers 1, 2, 3, 4, 5 in that order,
\* each once and none skipped, also when the point set is empty; layer 2
\* receives layer 1's points, layer 3 layer 2's skeleton, layer 4 that mesh
\* and skeleton, layer 5 the mesh and layer 4's assets, and the result
\* record is assembled only after layer 5 has finished.
C10_StageOrdering ==
    \A r \in Runs :
        /\ Len(log[r]) = CallsMade(r)
        /\ LoggedLayers(r) = [k \in 1..CallsMade(r) |-> k - 1]
        /\ Len(log[r]) >= 3 =>
              log[r][3].received = <<log[r][2].received[1], local[r].points>>
        /\ Len(log[r]) >= 4 =>
              log[r][4].received = <<log[r][2].received[1], local[r].skeleton>>
        /\ Len(log[r]) >= 5 =>
              log[r][5].received = <<log[r][2].received[1], local[r].mesh,
                                     local[r].skeleton>>
        /\ Len(log[r]) >= 6 =>
              log[r][6].received = <<log[r][2].received[1], local[r].mesh,
                                     local[r].assets>>
        /\ Len(log[r]) >= 7 <=> Done(r)
        /\ Done(r) => log[r][7].received = <<local[r]>>

C10_Witness ==
    /\ Done(1) /\ Len(local[1].points) = 0
    /\ LoggedLayers(1) = <<0, 1, 2, 3, 4, 5, 6>>
    /\ pc[2] = "layer_3"

C13_LayerSeeds ==
    /\ \A r \in Runs :
          CallsMade(r) >= 1 =>
             /\ DOMAIN local[r].config.layer_seeds = 0..5
             /\ \A i \in 0..5 :
                   /\ local[r].config.layer_seeds[i] =
                         derive_layer_seed(args[r].master_seed, i,
                                           args[r].chunk_coords[1],
                                           args[r].chunk_coords[2],
                                           args[r].chunk_coords[3])
                   /\ local[r].config.layer_seeds[i] \subseteq Bit
    /\ (CallsMade(1) >= 1 /\ CallsMade(2) >= 1) =>
          local[1].config.layer_seeds = local[2].config.layer_seeds

C13_Witness ==
    /\ pc[1] = "layer_1" /\ pc[2] = "layer_1"
    /\ args[1].chunk_coords = <<0, 0, 1>>
    /\ Cardinality({local[1].config.layer_seeds[i] : i \in 0..5}) = 6

\* The fields in which the arguments of the two callers differ.
KeyFieldsDiffering(fields) == {f \in fields : args[1][f] # args[2][f]}

\* C14 (checked under SpecKey).  Cache key stability: two calls of
\* compute_cache_key with identical (master_seed, chunk_coords, generation
\* version, content_type, params_hash) return the same key, and two calls
\* that differ in exactly one of these fields return different keys, the key
\* standing for the string that is hashed; the same for chunk_manager's
\* compute_cache_key over its four arguments.
C14_CacheKeyStability ==
    (pc[1] = "key_done" /\ pc[2] = "key_done")
    => /\ KeyFieldsDiffering({"master_seed", "chunk_coords",
                              "generation_version", "content_type",
                              "params_hash"}) = {}
          => result[1].master = result[2].master
       /\ Cardinality(KeyFieldsDiffering({"master_seed", "chunk_coords",
                                          "generation_version",
                                          "content_type",
                                          "params_hash"})) = 1
          => result[1].master # result[2].master
       /\ KeyFieldsDiffering({"master_seed", "chunk_coords", "content_type",
                              "params_hash"}) = {}
          => result[1].manager = result[2].manager
       /\ Cardinality(KeyFieldsDiffering({"master_seed", "chunk_coords",
                                          "content_type",
                                          "params_hash"})) = 1
          => result[1].manager # result[2].manager

C14_Witness ==
    /\ pc[1] = "key_done" /\ pc[2] = "key_done"
    /\ KeyFieldsDiffering({"master_seed", "chunk_coords",
                           "generation_version", "content_type",
                           "params_hash"}) = {"content_type"}
    /\ args[1].content_type = <<"r", ":", "o">>
    /\ args[1].params_hash = <<"a", "0">>
    /\ result[1].manager # result[2].manager

\* The data of the last cache_put(key, ...) of history h that no cache_clear
\* follows, None when there is none.
RECURSIVE LastPut(_, _)
LastPut(h, key) ==
    IF h = <<>> THEN None
    ELSE IF h[Len(h)].op = "cache_clear" THEN None
    ELSE IF h[Len(h)].op = "cache_put" /\ h[Len(h)].key = key
    THEN h[Len(h)].data
    ELSE LastPut(SubSeq(h, 1, Len(h) - 1), key)

\* The keys put in history h since its last cache_clear.
RECURSIVE KeysPut(_)
KeysPut(h) ==
    IF h = <<>> THEN {}
    ELSE IF h[Len(h)].op = "cache_clear" THEN {}
    ELSE IF h[Len(h)].op = "cache_put"
    THEN {h[Len(h)].key} \cup KeysPut(SubSeq(h, 1, Len(h) - 1))
    ELSE KeysPut(SubSeq(h, 1, Len(h) - 1))

\* C15 (checked under SpecCache).  Cache get/put: after any sequence of
\* cache_put, cache_get and cache_clear calls, cache_get(key) returns the
\* data of the most recent cache_put(key, ...) not followed by a
\* cache_clear, and None when there is no such put, whatever was put to
\* other keys and whatever was read before.
C15_CacheGetPut ==
    ret.op = "cache_get" => ret.value = LastPut(log[1], ret.key)

\* C16 (checked under SpecCache).  Cache clear: cache_clear removes every
\* stored entry and returns the number of distinct keys put since the
\* previous clear; a cache_get that follows returns None for every key, and
\* a second cache_clear, or a cache_clear on a cache never written, returns
\* 0.
C16_CacheClear ==
    /\ ret.op = "cache_clear"
       => /\ ret.value =
                Cardinality(KeysPut(SubSeq(log[1], 1, Len(log[1]) - 1)))
          /\ DOMAIN cache_dir.files = {}
    /\ (ret.op = "cache_get" /\ ret.key \notin KeysPut(log[1]))
       => ret.value = None

C16_Witness ==
    /\ ret.op = "cache_clear" /\ ret.value = 0
    /\ Len(log[1]) = 4
    /\ log[1][1].op = "cache_put" /\ log[1][2].op = "cache_put"
    /\ log[1][1].key # log[1][2].key
    /\ log[1][3].op = "cache_clear"

\* C17 (checked under SpecL1).  Out-of-range density is accepted: for every
\* density, below 0 and above 1 included, layer 1 of run_pipeline raises no
\* error, and its grid has at least 1 and at most 64 cells per side, the
\* cell size being at least 1 and at most 64.
C17_AnyDensityAccepted ==
    /\ pc[1] # "layer_1_raised"
    /\ pc[1] \in {"layer_1_cells", "layer_1_done"}
       => /\ local[1].cols \in 1..ChunkSize
          /\ local[1].rows \in 1..ChunkSize
          /\ local[1].cell_size[1] >= local[1].cell_size[2]
          /\ local[1].cell_size[1] <= ChunkSize * local[1].cell_size[2]

\* C18 (checked under SpecL2).  Joint annotation: every joint returned by
\* layer_2_skeleton_topology, for any number of points, 0 and 1 included,
\* carries a connectivity, the number of returned bones that have the joint
\* as 'from' or 'to', and a joint_type, 'leaf' for connectivity <= 1,
\* 'branch' for 2 or 3 and 'hub' otherwise.
C18_JointAnnotation ==
    pc[1] = "layer_2_done"
    => \A i \in DOMAIN local[1].skeleton.joints :
          /\ "connectivity" \in DOMAIN local[1].skeleton.joints[i]
          /\ "joint_type" \in DOMAIN local[1].skeleton.joints[i]
          /\ local[1].skeleton.joints[i].connectivity =
                Cardinality({k \in DOMAIN local[1].skeleton.bones :
                                local[1].skeleton.bones[k].from = i - 1
                                \/ local[1].skeleton.bones[k].to = i - 1})
          /\ local[1].skeleton.joints[i].joint_type =
                (IF local[1].skeleton.joints[i].connectivity <= 1 THEN "leaf"
                 ELSE IF local[1].skeleton.joints[i].connectivity <= 3
                      THEN "branch" ELSE "hub")

\* C19 (checked under Spec).  GenerationConfig is immutable once
\* constructed: at every later statement of run_pipeline the config holds
\* the arguments of the call and the seeds derived from them, every layer
\* received that config, and the 'config' section of the result is that
\* config.
C19_ConfigImmutable ==
    \A r \in Runs :
        /\ CallsMade(r) >= 1 =>
              local[r].config = GenerationConfig(args[r].master_seed,
                                                 args[r].content_type,
                                                 args[r].density,
                                                 args[r].chunk_coords)
        /\ \A k \in 2..IMin(Len(log[r]), 6) :
              log[r][k].received[1] = local[r].config
        /\ Done(r) =>
              /\ result[r].config.master_seed = args[r].master_seed
              /\ result[r].config.content_type = args[r].content_type
              /\ result[r].config.density = args[r].density
              /\ result[r].config.chunk_coords = args[r].chunk_coords
              /\ result[r].config.layer_seeds =
                    [i \in 0..5 |->
                        derive_layer_seed(args[r].master_seed, i,
                                          args[r].chunk_coords[1],
                                          args[r].chunk_coords[2],
                                          args[r].chunk_coords[3])]

C19_Witness ==
    /\ Done(1) /\ pc[2] = "layer_4"
    /\ args[1].density = 0
    /\ result[1].config.density = 0
    /\ Len(log[2]) = 4

\* The joints in the tree before the k-th bone is recorded.
TreeBefore(bones, k) == {0} \cup {bones[m].to : m \in 1..(k - 1)}

\* The squared distance of the joints i and j of the points pts.
JointDistance2(pts, i, j) == Distance2(pts[i + 1], pts[j + 1])

\* C20 (checked under SpecL2).  Greedy Prim step with deterministic
\* tie-break: the k-th bone joins a joint of the tree, which starts as joint
\* 0, to a joint outside it at the least distance of all such pairs, the
\* first of the pairs at that distance in the order i ascending, then j
\* ascending; its length is that distance and its stiffness is the k-th
\* draw of the layer-2 generator, in [0.3,1.0].
C20_GreedyPrimStep ==
    (pc[1] = "layer_2_done" /\ Len(local[1].points) >= 2)
    => \A k \in DOMAIN local[1].skeleton.bones :
          /\ local[1].skeleton.bones[k].from
                \in TreeBefore(local[1].skeleton.bones, k)
          /\ local[1].skeleton.bones[k].to
                \in (0..(Len(local[1].points) - 1))
                    \ TreeBefore(local[1].skeleton.bones, k)
          /\ \A i \in TreeBefore(local[1].skeleton.bones, k),
                j \in (0..(Len(local[1].points) - 1))
                      \ TreeBefore(local[1].skeleton.bones, k) :
                /\ ~SqLess(JointDistance2(local[1].points, i, j),
                           JointDistance2(local[1].points,
                                          local[1].skeleton.bones[k].from,
                                          local[1].skeleton.bones[k].to))
                /\ JointDistance2(local[1].points, i, j)
                   = JointDistance2(local[1].points,
                                    local[1].skeleton.bones[k].from,
                                    local[1].skeleton.bones[k].to)
                   => \/ local[1].skeleton.bones[k].from < i
                      \/ /\ local[1].skeleton.bones[k].from = i
                         /\ local[1].skeleton.bones[k].to <= j
          /\ local[1].skeleton.bones[k].length =
                RoundSqrt(JointDistance2(local[1].points,
                                         local[1].skeleton.bones[k].from,
                                         local[1].skeleton.bones[k].to))
          /\ local[1].skeleton.bones[k].stiffness =
                RangeValue(Draws(SeededRNG(local[1].config.layer_seeds[2]),
                                 k)[k].value, 3000, 10000)
          /\ local[1].skeleton.bones[k].stiffness \in 3000..10000

C20_Witness ==
    /\ pc[1] = "layer_2_done"
    /\ Len(local[1].skeleton.bones) = 3
    /\ \E k \in 2..3 :
          \E i \in TreeBefore(local[1].skeleton.bones, k),
             j \in (0..3) \ TreeBefore(local[1].skeleton.bones, k) :
             /\ <<i, j>> # <<local[1].skeleton.bones[k].from,
                             local[1].skeleton.bones[k].to>>
             /\ JointDistance2(local[1].points, i, j)
                = JointDistance2(local[1].points,
                                 local[1].skeleton.bones[k].from,
                                 local[1].skeleton.bones[k].to)
    /\ local[1].skeleton.bones[1].stiffness
          # local[1].skeleton.bones[2].stiffness

\* C21 (checked under SpecCap).  256-point cap: for an input of n points
\* the subset the tree is grown over, and then the joints returned, are the
\* first min(n,256) input points in their order, joint i being input point
\* i; no point at a position from 256 on is a joint, and no bone ends at
\* such a position; with fewer than 2 points the joints are the points
\* and there is no bone.
C21_PointCap ==
    /\ pc[1] = "layer_2_prim"
       => /\ local[1].subset =
                [i \in 1..IMin(Len(local[1].points), 256) |->
                    local[1].points[i]]
          /\ Len(local[1].st.in_tree) = IMin(Len(local[1].points), 256)
    /\ pc[1] = "layer_2_done"
       => /\ Len(local[1].skeleton.joints)
                = IMin(Len(local[1].points), 256)
          /\ \A i \in DOMAIN local[1].skeleton.joints :
                \A f \in DOMAIN local[1].points[i] :
                    local[1].skeleton.joints[i][f] = local[1].points[i][f]
          /\ \A k \in 257..Len(local[1].points) :
                \A i \in DOMAIN local[1].skeleton.joints :
                    \E f \in DOMAIN local[1].points[k] :
                        local[1].skeleton.joints[i][f]
                            # local[1].points[k][f]
          /\ \A b \in DOMAIN local[1].skeleton.bones :
                /\ local[1].skeleton.bones[b].from \in 0..255
                /\ local[1].skeleton.bones[b].to \in 0..255
          /\ Len(local[1].points) < 2
                => /\ local[1].skeleton.joints = local[1].points
                   /\ local[1].skeleton.bones = <<>>

C21_Witness ==
    /\ pc[1] = "layer_2_done"
    /\ Len(local[1].points) = 257
    /\ Len(local[1].skeleton.joints) = 256
    /\ Len(local[1].skeleton.bones) = 255
    /\ local[1].skeleton.joints[256].x = local[1].points[256].x

\* The positions, in the bone list, of the bones whose two ends are valid
\* positions 0..len(joints)-1 of the joint sequence.
ValidBones(joints, bones) ==
    SelectSeq([b \in 1..Len(bones) |-> b],
              LAMBDA b : /\ bones[b].from \in 0..(Len(joints) - 1)
                         /\ bones[b].to \in 0..(Len(joints) - 1))

\* The skeleton left when the bones with an invalid end are taken away.
WithoutInvalidBones(skeleton) ==
    [joints |-> skeleton.joints,
     bones |-> [m \in 1..Len(ValidBones(skeleton.joints, skeleton.bones)) |->
                  skeleton.bones[ValidBones(skeleton.joints,
                                            skeleton.bones)[m]]]]

\* C22 (checked under SpecL3).  Defensive bone skip: given a bone whose
\* 'from' or 'to' is no valid position of the joint sequence,
\* layer_3_mesh_geometry does not raise; the vertices and the indices are
\* those of the skeleton without the invalid bones, so that an invalid bone
\* adds no vertex, index or weight and takes no draw, and the weights are
\* those too, except that 'bone' is the bone's position in the list given.
C22_DefensiveBoneSkip ==
    /\ pc[1] # "layer_3_raised"
    /\ pc[1] = "layer_3_done"
       => /\ local[1].mesh.vertices =
                layer_3_mesh_geometry(
                    local[1].config,
                    WithoutInvalidBones(local[1].skeleton)).vertices
          /\ local[1].mesh.indices =
                layer_3_mesh_geometry(
                    local[1].config,
                    WithoutInvalidBones(local[1].skeleton)).indices
          /\ Len(local[1].mesh.skinning_weights)
                = Len(local[1].mesh.vertices)
          /\ \A k \in DOMAIN local[1].mesh.skinning_weights :
                local[1].mesh.skinning_weights[k].bone + 1 =
                    ValidBones(local[1].skeleton.joints,
                               local[1].skeleton.bones)[
                        ((k - 1) \div (radial_divisions
                                       * (segments_per_bone + 1))) + 1]

\* The point p lies in the closed square of the cell (row, col) of the grid
\* of loc, or no more than slack / 2 units of 0.0001 outside it; the cell
\* size is loc.cell_size[1] / loc.cell_size[2] and the grid starts at the
\* chunk's corner.
InCell(p, row, col, loc, slack) ==
    LET dx == (p.x - loc.config.chunk_coords[1] * ChunkSize * Unit)
              * loc.cell_size[2]
        dy == (p.y - loc.config.chunk_coords[2] * ChunkSize * Unit)
              * loc.cell_size[2]
    IN /\ 2 * col * loc.cell_size[1] * Unit - slack * loc.cell_size[2]
             <= 2 * dx
       /\ 2 * dx <= 2 * (col + 1) * loc.cell_size[1] * Unit
                    + slack * loc.cell_size[2]
       /\ 2 * row * loc.cell_size[1] * Unit - slack * loc.cell_size[2]
             <= 2 * dy
       /\ 2 * dy <= 2 * (row + 1) * loc.cell_size[1] * Unit
                    + slack * loc.cell_size[2]

\* The points appended so far are one per cell, the cells strictly
\* ascending in (row, col), and each point lies in its cell up to slack.
RowMajor(loc, slack) ==
    /\ Len(loc.cells) = Len(loc.st[2])
    /\ Len(loc.st[2]) <= loc.rows * loc.cols
    /\ \A k \in DOMAIN loc.cells :
          /\ loc.cells[k][1] \in 0..(loc.rows - 1)
          /\ loc.cells[k][2] \in 0..(loc.cols - 1)
          /\ InCell(loc.st[2][k], loc.cells[k][1], loc.cells[k][2], loc,
                    slack)
          /\ k > 1 =>
                \/ loc.cells[k - 1][1] < loc.cells[k][1]
                \/ /\ loc.cells[k - 1][1] = loc.cells[k][1]
                   /\ loc.cells[k - 1][2] < loc.cells[k][2]

\* C23 as stated (checked under SpecL1).  Row-major output order:
\* layer_1_spatial_distribution scans the grid row by row and column by
\* column and emits at most one point per cell; the (row, col) cell of
\* each point is strictly greater, row first, than that of the point before
\* it; each point's x and y lie inside its own cell, offset by the chunk
\* coordinate times 64; and there are at most rows * cols points.
C23_RowMajorOrder ==
    pc[1] \in {"layer_1_cells", "layer_1_done"}
    => /\ RowMajor(local[1], 0)
       /\ pc[1] = "layer_1_done" => result[1] = local[1].st[2]

\* C23 amended (checked under SpecL1).  As stated, except that each
\* point's x and y, which are rounded to 4 decimals, lie inside its own
\* cell or at most 0.00005 outside it.
C23_RowMajorOrderRounded ==
    pc[1] \in {"layer_1_cells", "layer_1_done"}
    => /\ RowMajor(local[1], 1)
       /\ pc[1] = "layer_1_done" => result[1] = local[1].st[2]

C23_Witness ==
    /\ pc[1] = "layer_1_done"
    /\ Len(result[1]) >= 2
    /\ \E k \in 2..Len(result[1]) :
          /\ local[1].cells[k][1] > local[1].cells[k - 1][1]
          /\ local[1].cells[k][2] < local[1].cells[k - 1][2]
          /\ result[1][k].y > result[1][k - 1].y
          /\ result[1][k].x < result[1][k - 1].x

\* The number of bones the code extrudes.
Extruded(skeleton) ==
    Cardinality({b \in DOMAIN skeleton.bones :
                    ~BoneSkipped(skeleton.joints, skeleton.bones[b])})

\* C27 (checked under SpecL3).  Tube structure per bone: in a mesh
\* returned by layer_3_mesh_geometry every bone that is not skipped has a
\* block of 56 vertices, 7 rings of 8 in ring order, and 96 triangles;
\* the three indices of each of its triangles lie in its block, in the
\* rings r and r + 1 for one r of 0..5 and at the radial indices q and
\* (q + 1) mod 8 for one q; so no triangle has vertices of two bones.
C27_TubeStructure ==
    pc[1] = "layer_3_done"
    => /\ Len(local[1].mesh.vertices) = 56 * Extruded(local[1].skeleton)
       /\ local[1].mesh.triangle_count = 96 * Extruded(local[1].skeleton)
       /\ Len(local[1].mesh.indices) = 3 * local[1].mesh.triangle_count
       /\ \A k \in DOMAIN local[1].mesh.vertices :
             /\ local[1].mesh.vertices[k].seg = ((k - 1) % 56) \div 8
             /\ local[1].mesh.vertices[k].rad = (k - 1) % 8
       /\ \A t \in 1..local[1].mesh.triangle_count :
             \A c \in 0..2 :
                /\ local[1].mesh.indices[3 * t - c] \div 56 = (t - 1) \div 96
                /\ (local[1].mesh.indices[3 * t - c] % 56) \div 8
                      \in {((t - 1) % 96) \div 16,
                           (((t - 1) % 96) \div 16) + 1}
                /\ local[1].mesh.indices[3 * t - c] % 8
                      \in {((t - 1) % 16) \div 2,
                           ((((t - 1) % 16) \div 2) + 1) % 8}
                /\ ((t - 1) % 96) \div 16 \in 0..5
       /\ \A t \in 1..local[1].mesh.triangle_count :
             /\ {(local[1].mesh.indices[3 * t - c] % 56) \div 8 :
                    c \in 0..2}
                   = {((t - 1) % 96) \div 16, (((t - 1) % 96) \div 16) + 1}
             /\ {local[1].mesh.indices[3 * t - c] % 8 : c \in 0..2}
                   = {((t - 1) % 16) \div 2,
                      ((((t - 1) % 16) \div 2) + 1) % 8}

C27_Witness ==
    /\ pc[1] = "layer_3_done"
    /\ Len(local[1].skeleton.bones) = 2
    /\ Extruded(local[1].skeleton) = 2
    /\ local[1].mesh.triangle_count = 192
    /\ local[1].mesh.indices[3 * 112 - 2] = 56 + 7
    /\ local[1].mesh.indices[3 * 112 - 1] = 56 + 8
    /\ local[1].mesh.indices[3 * 112] = 56

\* C28 (checked under SpecKey).  The two cache-key implementations agree:
\* for every master seed, chunk coordinates, content type and params hash,
\* compute_cache_key of chunk_manager.py returns the key that
\* compute_cache_key of generation_master.py returns for the same
\* arguments and the generation version '1.0.0-alpha', the two hashing the
\* same string.
C28_CacheKeysAgree ==
    \A r \in Runs :
        (pc[r] = "key_done" /\ args[r].generation_version = GENERATION_VERSION)
        => result[r].manager = result[r].master

\* C29 (checked under SpecFmt).  The requested output format is honoured:
\* for every output_format passed to run_pipeline, export_format of the
\* result's scene summary and format of the scene's export manifest equal
\* that output_format, and so does output_format of the result.
C29_OutputFormatHonoured ==
    \A r \in Runs :
        Done(r)
        => /\ result[r].scene.export_format = args[r].output_format
           /\ local[r].scene.export_manifest.format = args[r].output_format
           /\ result[r].output_format = args[r].output_format

\* p is in the closed ball of the sphere: its squared distance to the
\* centre is at most the squared radius.
Encloses(sphere, p) ==
    ~SqLess(SqDiff(sphere.radius * Unit, 0),
            Distance2(p, [x |-> sphere.cx * Unit, y |-> sphere.cy * Unit,
                          z |-> sphere.cz * Unit]))

\* C30 (checked under SpecL1).  The bounding sphere encloses the content:
\* for every density in [0, 1] and every chunk coordinate, each point
\* returned by layer_1_spatial_distribution is within the bounding sphere
\* of the content node, its squared distance to
\* (cx * 64 + 32, cy * 64 + 32, cz * 64) being at most 45 squared.
C30_BoundingSphereEncloses ==
    (pc[1] = "layer_1_done" /\ args[1].density.finite \in 0..16)
    => \A k \in DOMAIN result[1] :
          Encloses(bounding_sphere(local[1].config), result[1][k])

\* C24 (checked under SpecL5).  LOD table: the content node of the scene
\* has exactly three LOD entries, of levels 0, 1, 2 in that order; at level
\* L the triangle_count is max(1, floor(T / 2^L)), the vertex_count is
\* max(1, floor(V / 2^L)), T and V the triangle and vertex counts of the
\* mesh, and the distance is 50 * L; the counts never grow with L and are
\* never below 1.
C24_LodTable ==
    pc[1] = "layer_5_done"
    => LET lods == local[1].scene.scene_graph[2].lods
           T == local[1].mesh.triangle_count
           V == Len(local[1].mesh.vertices)
       IN /\ Len(lods) = 3
          /\ \A k \in 1..3 :
                /\ lods[k].level = k - 1
                /\ lods[k].distance = 50 * (k - 1)
                /\ lods[k].triangle_count >= 1
                /\ lods[k].vertex_count >= 1
                /\ \/ T < 2 ^ (k - 1) /\ lods[k].triangle_count = 1
                   \/ /\ lods[k].triangle_count * 2 ^ (k - 1) <= T
                      /\ T < (lods[k].triangle_count + 1) * 2 ^ (k - 1)
                /\ \/ V < 2 ^ (k - 1) /\ lods[k].vertex_count = 1
                   \/ /\ lods[k].vertex_count * 2 ^ (k - 1) <= V
                      /\ V < (lods[k].vertex_count + 1) * 2 ^ (k - 1)
          /\ \A k \in 1..2 :
                /\ lods[k + 1].triangle_count <= lods[k].triangle_count
                /\ lods[k + 1].vertex_count <= lods[k].vertex_count

C24_Witness ==
    /\ pc[1] = "layer_5_done"
    /\ local[1].mesh.triangle_count = 7
    /\ Len(local[1].mesh.vertices) = 2
    /\ local[1].scene.scene_graph[2].lods[3].triangle_count = 1
    /\ local[1].scene.scene_graph[2].lods[2].triangle_count = 3
    /\ local[1].scene.scene_graph[2].lods[3].vertex_count = 1

\* C25 (checked under SpecL4).  Animation structure: the assets returned
\* by layer_4_assets_animation have exactly two clips, 'idle' of 30 frames
\* and then 'walk' of 60; the keyframes of a clip are the frames 0, 5,
\* 10, ... below its total_frames, ascending, 6 for idle and 12 for walk,
\* keyframe_count being their number; every keyframe has exactly
\* min(number of rig joints, 16) transforms, of joints 0, 1, 2, ... in
\* order, each with rz 0.
C25_AnimationStructure ==
    pc[1] = "layer_4_done"
    => LET clips == local[1].assets.animations
           rigged == local[1].assets.rig.joint_count
       IN /\ Len(clips) = 2
          /\ clips[1].name = "idle" /\ clips[1].total_frames = 30
          /\ clips[2].name = "walk" /\ clips[2].total_frames = 60
          /\ Len(clips[1].keyframes) = 6
          /\ Len(clips[2].keyframes) = 12
          /\ \A c \in 1..2 :
                /\ clips[c].keyframe_count = Len(clips[c].keyframes)
                /\ \A k \in DOMAIN clips[c].keyframes :
                      /\ clips[c].keyframes[k].frame = 5 * (k - 1)
                      /\ clips[c].keyframes[k].frame < clips[c].total_frames
                      /\ Len(clips[c].keyframes[k].transforms)
                            = (IF rigged < 16 THEN rigged ELSE 16)
                      /\ \A j \in DOMAIN clips[c].keyframes[k].transforms :
                            /\ clips[c].keyframes[k].transforms[j].joint
                                  = j - 1
                            /\ clips[c].keyframes[k].transforms[j].rz = 0

C25_Witness ==
    /\ pc[1] = "layer_4_done"
    /\ Len(local[1].skeleton.bones) = 17
    /\ Len(local[1].assets.animations[2].keyframes[12].transforms) = 16
    /\ local[1].assets.animations[2].keyframes[12].frame = 55

\* C26 (checked under SpecL4).  Rig is per bone: the rig returned by
\* layer_4_assets_animation has joint_count equal to the number of bones
\* of the skeleton, whatever the number of its joints; rig joint i has id
\* i and the length and stiffness of bone i, the bones in their order;
\* with no bone the rig is empty and joint_count is 0.
C26_RigPerBone ==
    pc[1] = "layer_4_done"
    => /\ local[1].assets.rig.joint_count = Len(local[1].skeleton.bones)
       /\ Len(local[1].assets.rig.joints) = Len(local[1].skeleton.bones)
       /\ \A i \in DOMAIN local[1].assets.rig.joints :
             /\ local[1].assets.rig.joints[i].id = i - 1
             /\ "length" \in DOMAIN local[1].skeleton.bones[i]
                => local[1].assets.rig.joints[i].length
                      = local[1].skeleton.bones[i].length
             /\ "stiffness" \in DOMAIN local[1].skeleton.bones[i]
                => local[1].assets.rig.joints[i].stiffness
                      = local[1].skeleton.bones[i].stiffness
       /\ local[1].skeleton.bones = <<>>
          => /\ local[1].assets.rig.joints = <<>>
             /\ local[1].assets.rig.joint_count = 0

C26_Witness ==
    /\ pc[1] = "layer_4_done"
    /\ Len(local[1].skeleton.bones) = 3
    /\ Len(local[1].skeleton.joints) = 4
    /\ local[1].assets.rig.joint_count = 3
    /\ local[1].assets.rig.joints[3].length = 307
    /\ local[1].assets.rig.joints[3].stiffness = 3003

====
